---- MODULE Spec2Model ----
(***************************************************************************)
(* State machines of the Groq provider adapter and its client construction *)
(* (libs/agno/agno/models/groq/groq.py), the PDF URL readers               *)
(* (libs/agno/agno/document/reader/pdf_reader.py), the MongoDB workflow    *)
(* storage (libs/agno/agno/storage/workflow/mongodb.py) and the cookbook   *)
(* test runner (cookbook/scripts/test_runner.py).  Python dicts are        *)
(* functions with a finite domain (an absent key is a key outside DOMAIN); *)
(* an Optional value is the empty tuple for None and a one-element tuple   *)
(* otherwise.                                                              *)
(***************************************************************************)
EXTENDS Integers, Sequences, FiniteSets, TLC

(* ------------------------------ bounds -------------------------------- *)
\* vendor chat-completion requests issued through one adapter instance
MaxRequests == 2
\* chunks the vendor sends on the streams of one adapter instance, in total
MaxChunks == 3
\* chunks the vendor sends on the streams of two concurrent calls, in total
MaxInterleaved == 2
\* writes (upsert, delete_session, drop) issued to one storage
MaxOps == 4
\* calls of get_client_params, get_client, get_async_client and the invoke
\* methods on one adapter instance
MaxClientCalls == 2
\* rerun rounds the user accepts in one run of the test runner
MaxRounds == 2

(* --------------------------- Python values ---------------------------- *)
None == <<>>
Some(v) == <<v>>
IsNone(o) == o = None
Val(o) == o[1]

\* dict.get(k, d)
Get(d, k, default) == IF k \in DOMAIN d THEN d[k] ELSE default
\* d[k] = v
Put(d, k, v) == (k :> v) @@ d
\* d.setdefault(k, []).append(v)
AppendTo(d, k, v) == Put(d, k, Append(Get(d, k, <<>>), v))
EmptyDict == <<>>

RECURSIVE Concat(_)
\* "".join(fragments)
Concat(fragments) ==
  IF fragments = <<>> THEN "" ELSE Head(fragments) \o Concat(Tail(fragments))

(* ------------------------- vendor data shapes ------------------------- *)
\* CompletionUsage: the three token counts are ints, the timings Optional.
Usage(p, c, ct, pt, qt, tt) ==
  [prompt_tokens |-> Some(p), completion_tokens |-> Some(c), total_tokens |-> Some(p + c),
   completion_time |-> ct, prompt_time |-> pt, queue_time |-> qt, total_time |-> tt]

\* the usage block the vendor reports: 5 + 2 = 7 tokens; queue_time is a
\* timing it leaves out
UsageBlocks == { Usage(5, 2, Some(1), Some(1), None, Some(2)) }

\* one complete tool call of a ChatCompletionMessage
ToolCall == [id |-> "call_1", name |-> "get_weather", arguments |-> "{}"]

\* ChoiceDeltaToolCall fragments of one streamed tool call: the first carries
\* the id and the name, the later ones only more of the arguments
ToolCallFragments ==
  << [index |-> 0, id |-> Some("call_1"), name |-> Some("get_weather"), arguments |-> "{"],
     [index |-> 0, id |-> None, name |-> None, arguments |-> "}"] >>

\* ChatCompletion: choices[0].message and usage.  dump_ok = FALSE is a tool
\* call whose model_dump() raises.
Completions ==
  { c \in [content : {None, Some("Hi")},
           tool_calls : {None, Some(<<>>), Some(<<ToolCall>>)},
           dump_ok : BOOLEAN,
           usage : {None} \cup {Some(u) : u \in UsageBlocks}] :
      c.tool_calls \in {None, Some(<<>>)} => c.dump_ok }

\* ChatCompletionChunk: choices (zero or one), choices[0].delta, usage
Chunk(n, c, t, u) == [choices |-> n, content |-> c, tool_calls |-> t, usage |-> u]

Chunks ==
  { Chunk(0, None, None, None),                     \* keep-alive
    Chunk(1, None, None, None),                     \* role-only delta
    Chunk(1, Some("Hello"), None, None),
    Chunk(1, Some(" world"), None, None),
    Chunk(1, None, Some(ToolCallFragments), None) }
  \cup { Chunk(0, None, None, Some(u)) : u \in UsageBlocks }

(* ------------------------------- state -------------------------------- *)
VARIABLES
  messages,        \* the conversation list the caller passes in
  self_metrics,    \* Groq.metrics, the adapter's lifetime mapping
  pc,              \* "idle" | "invoke" | "stream" | "done" | "raised"
  method,          \* entry point of the running call
  metrics,         \* the call's Metrics instance
  stream_data,     \* the call's StreamData
  yielded,         \* contents yielded by the chunk loop of this model round
  chunks,          \* vendor chunks consumed in this model round
  model_response,  \* ModelResponse of the call
  error,           \* the exception that left the call, None otherwise
  at_request,      \* messages as they were when the vendor request began
  completion,      \* the ChatCompletion invoke / ainvoke returned last, None otherwise
  requests,        \* vendor requests issued so far
  streamed,        \* chunks the vendor has sent so far
  logged,          \* logger.warning calls of the running call, in order
  \* two concurrent calls through the one adapter instance (self_metrics is
  \* the mapping they share)
  c_pc,            \* per call: "idle" | "invoke" | "stream" | "update" | "done"
  c_method,        \* per call: its entry point
  c_messages,      \* per call: the conversation list it was given
  c_metrics,       \* per call: its Metrics instance
  c_stream_data,   \* per call: its StreamData
  c_chunks,        \* per call: the vendor chunks its own stream has delivered
  c_assistant,     \* per call: the assistant Message it has built, None before
  c_reported,      \* per call: the counter values it adds to the lifetime mapping
  c_todo,          \* per call: the running-total statements it has yet to execute
  c_read,          \* per call: the value self.metrics.get(k, 0) returned, None before
  lost,            \* per counter: what writes of a stale read have overwritten
  interleaved,     \* chunks delivered to the concurrent streams so far
  \* PDFUrlReader, PDFUrlImageReader
  reader,          \* the class of the reader whose method runs
  pdf_pc,          \* "idle" | "fetch" | "returned" | "raised"
  pdf_method,      \* "read" | "async_read"
  url,             \* the url argument
  chunk,           \* Reader.chunk
  attempt,         \* the retry loop's variable
  slept,           \* the arguments of sleep / asyncio.sleep so far, in order
  pdf_log,         \* logger.warning / logger.error calls so far, in order
  documents,       \* the returned List[Document], None before a return
  pdf_error,       \* the exception that left the call, None otherwise
  outcomes,        \* how each fetch of the call ended, in order
  \* MongoDbWorkflowStorage
  collection,      \* the MongoDB collection: session_id -> document
  upserted,        \* per session id: the session last upserted and not removed since
  mongo_result,    \* what the last read / upsert returned
  mongo_ops,       \* writes issued so far; also the clock timestamps are read from
  \* Groq client construction
  client_pc,       \* "new" before the dataclass is constructed, "ready" after
  adapter,         \* the Groq instance's client parameters and client fields
  environ,         \* os.environ's GROQ_API_KEY, None when unset
  client_log,      \* logger.error calls so far, in order
  client_result,   \* the last call: its name, what it returned, what it raised
  constructed,     \* GroqClient / AsyncGroqClient objects constructed so far
  client_calls,    \* calls made so far
  \* cookbook/scripts/test_runner.py, drill_and_run_scripts
  run_pc,          \* "start" | "first_pass" | "prompt" | "rerun" and the four ends
  python_files,    \* the .py files listed in the selected directory
  error_log,       \* the list of that name
  new_error_log,   \* the list of that name
  queue,           \* what the running for loop has yet to iterate over
  runs,            \* the scripts run in the current pass, with how each ended
  last_run,        \* per script: how its most recent run ended
  printed,         \* the program's own messages so far, in order
  rounds           \* rerun rounds accepted so far

groq_vars == <<messages, self_metrics, pc, method, metrics, stream_data, yielded,
               chunks, model_response, error, at_request, completion, requests, streamed,
               logged>>

pdf_vars == <<reader, pdf_pc, pdf_method, url, chunk, attempt, slept, pdf_log, documents,
              pdf_error, outcomes>>

conc_vars == <<c_pc, c_method, c_messages, c_metrics, c_stream_data, c_chunks,
               c_assistant, c_reported, c_todo, c_read, lost, interleaved>>

mongo_vars == <<collection, upserted, mongo_result, mongo_ops>>

client_vars == <<client_pc, adapter, environ, client_log, client_result, constructed,
                 client_calls>>

runner_vars == <<run_pc, python_files, error_log, new_error_log, queue, runs, last_run,
                 printed, rounds>>

vars == <<groq_vars, pdf_vars, conc_vars, mongo_vars, client_vars, runner_vars>>

\* the state of the single call, without the adapter's lifetime mapping
single_call == <<messages, pc, method, metrics, stream_data, yielded, chunks,
                 model_response, error, at_request, completion, requests, streamed,
                 logged>>

\* what the adapter's steps leave alone, what the reader's steps leave alone
\* and what the steps of the concurrent calls leave alone
outside_groq == <<pdf_vars, conc_vars, mongo_vars, client_vars, runner_vars>>
outside_pdf == <<groq_vars, conc_vars, mongo_vars, client_vars, runner_vars>>
outside_conc == <<single_call, pdf_vars, mongo_vars, client_vars, runner_vars>>
outside_mongo == <<groq_vars, pdf_vars, conc_vars, client_vars, runner_vars>>
outside_client == <<groq_vars, pdf_vars, conc_vars, mongo_vars, runner_vars>>
outside_runner == <<groq_vars, pdf_vars, conc_vars, mongo_vars, client_vars>>

(* ----------------------------- data model ----------------------------- *)
\* Message(role=..., content=...): tool_calls, tool_call_id default to None,
\* metrics to an empty dict
Message(role, content) ==
  [role |-> role, content |-> content, tool_calls |-> None,
   tool_call_id |-> None, metrics |-> EmptyDict]

\* counters that both the per-call Metrics and the metrics dicts carry
CounterKeys ==
  {"input_tokens", "output_tokens", "total_tokens", "prompt_tokens", "completion_tokens",
   "completion_time", "prompt_time", "queue_time", "total_time"}

TokenKeys == {"input_tokens", "output_tokens", "total_tokens"}

UsageField_prompt_twice(k) ==
  CASE k \in {"input_tokens", "prompt_tokens", "output_tokens", "completion_tokens"} ->
         "prompt_tokens"
    [] OTHER -> k

\* the CompletionUsage field a counter is read from
UsageField(k) ==
  CASE k \in {"input_tokens", "prompt_tokens"} -> "prompt_tokens"
    [] k \in {"output_tokens", "completion_tokens"} -> "completion_tokens"
    [] OTHER -> k

\* Metrics(): the token counters of the base class start as numbers (the
\* chunk loop does `completion_tokens += 1`, log() divides output_tokens);
\* Groq's four timings and time_to_first_token start as None.  elapsed is
\* response_timer.elapsed.
NewMetrics ==
  [input_tokens |-> Some(0), output_tokens |-> Some(0), total_tokens |-> Some(0),
   prompt_tokens |-> Some(0), completion_tokens |-> Some(0),
   completion_time |-> None, prompt_time |-> None, queue_time |-> None,
   total_time |-> None, time_to_first_token |-> None, elapsed |-> 0]

\* StreamData()
NewStreamData == [response_content |-> "", response_tool_calls |-> None]

\* ModelResponse()
NewModelResponse == [content |-> None]

(* -------------------------- metrics folding --------------------------- *)
AddToLifetime_overwrite(sm, k, v) == v

\* self.metrics[k] = self.metrics.get(k, 0) + v
AddToLifetime(sm, k, v) == Get(sm, k, 0) + v

\* the running-total updates of one call: every counter of `reported` (a
\* dict of the values to record) is summed into the lifetime mapping, the
\* others are left alone
SumInto(sm, reported) ==
  [k \in DOMAIN sm \cup DOMAIN reported |->
     IF k \in DOMAIN reported THEN AddToLifetime(sm, k, reported[k]) ELSE sm[k]]

\* assistant_message.metrics[k] = v for every counter of `reported`
WriteInto(d, reported) ==
  [k \in DOMAIN d \cup DOMAIN reported |->
     IF k \in DOMAIN reported THEN reported[k] ELSE d[k]]

\* the counters update_usage_metrics touches: those of a usage block whose
\* value is not None
UsageReported(response_usage) ==
  IF IsNone(response_usage) THEN {}
  ELSE {k \in CounterKeys : ~IsNone(Val(response_usage)[UsageField(k)])}

\* Groq.update_usage_metrics: returns the three objects it mutates
update_usage_metrics(assistant_message, m, response_usage, sm) ==
  LET reported == [k \in UsageReported(response_usage) |->
                     Val(Val(response_usage)[UsageField(k)])]
      timed == Put(assistant_message.metrics, "time", m.elapsed)
  IN [assistant_message |->
        [assistant_message EXCEPT !.metrics = WriteInto(timed, reported)],
      metrics |->
        [f \in DOMAIN m |-> IF f \in DOMAIN reported THEN Some(reported[f]) ELSE m[f]],
      self_metrics |->
        SumInto(AppendTo(sm, "response_times", m.elapsed), reported)]

add_response_usage_to_metrics_no_total(m, response_usage) ==
  [f \in DOMAIN m |->
     IF f \in CounterKeys \ {"total_tokens"} THEN response_usage[UsageField(f)] ELSE m[f]]

\* Groq.add_response_usage_to_metrics: nine plain assignments, None included
add_response_usage_to_metrics(m, response_usage) ==
  [f \in DOMAIN m |->
     IF f \in CounterKeys THEN response_usage[UsageField(f)] ELSE m[f]]

\* the counters update_stream_metrics touches: those of the Metrics instance
\* that are not None
StreamReported(m) == {k \in CounterKeys : ~IsNone(m[k])}

\* Groq.update_stream_metrics: returns the two objects it mutates
update_stream_metrics(assistant_message, m, sm) ==
  LET reported == [k \in StreamReported(m) |-> Val(m[k])]
      timed == Put(assistant_message.metrics, "time", m.elapsed)
      ttft == IF IsNone(m.time_to_first_token) THEN timed
              ELSE Put(timed, "time_to_first_token", Val(m.time_to_first_token))
      sm1 == AppendTo(sm, "response_times", m.elapsed)
      sm2 == IF IsNone(m.time_to_first_token) THEN sm1
             ELSE AppendTo(sm1, "time_to_first_token", Val(m.time_to_first_token))
  IN [assistant_message |->
        [assistant_message EXCEPT !.metrics = WriteInto(ttft, reported)],
      self_metrics |-> SumInto(sm2, reported)]

(* ----------------------------- tool calls ----------------------------- *)
RECURSIVE MergeFragments(_, _)
\* Model._build_tool_calls: the fragments of a stream are merged by index; a
\* new index opens a tool call, a known one extends its name and arguments
MergeFragments(tool_calls, fragments) ==
  IF fragments = <<>> THEN tool_calls
  ELSE LET f == Head(fragments)
           i == f.index + 1
           opened == [id |-> IF IsNone(f.id) THEN "" ELSE Val(f.id),
                      name |-> IF IsNone(f.name) THEN "" ELSE Val(f.name),
                      arguments |-> f.arguments]
           extended(t) == [id |-> IF IsNone(f.id) THEN t.id ELSE Val(f.id),
                           name |-> IF IsNone(f.name) THEN t.name ELSE t.name \o Val(f.name),
                           arguments |-> t.arguments \o f.arguments]
       IN IF i > Len(tool_calls)
          THEN MergeFragments(Append(tool_calls, opened), Tail(fragments))
          ELSE MergeFragments([tool_calls EXCEPT ![i] = extended(@)], Tail(fragments))

\* Groq.build_tool_calls
build_tool_calls(tool_calls_data) == MergeFragments(<<>>, tool_calls_data)

HasToolCalls_never(assistant_message) == FALSE

\* `assistant_message.tool_calls is not None and len(assistant_message.tool_calls) > 0`
HasToolCalls(assistant_message) ==
  /\ ~IsNone(assistant_message.tool_calls)
  /\ Len(Val(assistant_message.tool_calls)) > 0

\* the tool-role Message the dispatcher makes of one tool call's result
ToolMessage(tool_call) ==
  [Message("tool", Some("result")) EXCEPT !.tool_call_id = Some(tool_call.id)]

\* Model.handle_tool_calls / handle_stream_tool_calls: one tool-role Message
\* per tool call of the assistant Message, appended in call order
handle_tool_calls(assistant_message, msgs) ==
  msgs \o [i \in 1..Len(Val(assistant_message.tool_calls)) |->
             ToolMessage(Val(assistant_message.tool_calls)[i])]

(* ----------------------- assistant message (sync) --------------------- *)
create_assistant_message_attaches(response_message, m, response_usage, sm) ==
  LET plain == Message("assistant", response_message.content)
      r == update_usage_metrics([plain EXCEPT !.tool_calls = response_message.tool_calls],
                                m, response_usage, sm)
  IN [assistant_message |-> r.assistant_message,
      metrics |-> r.metrics,
      self_metrics |-> r.self_metrics,
      warnings |-> <<>>]

\* Groq.create_assistant_message: returns what update_usage_metrics returns,
\* and the warnings it logged on the way
create_assistant_message(response_message, m, response_usage, sm) ==
  LET plain == Message("assistant", response_message.content)
      has_tool_calls == /\ ~IsNone(response_message.tool_calls)
                        /\ Len(Val(response_message.tool_calls)) > 0
      with_tools ==
        IF has_tool_calls /\ response_message.dump_ok
        THEN [plain EXCEPT !.tool_calls = response_message.tool_calls]
        ELSE plain
      r == update_usage_metrics(with_tools, m, response_usage, sm)
  IN [assistant_message |-> r.assistant_message,
      metrics |-> r.metrics,
      self_metrics |-> r.self_metrics,
      warnings |-> IF has_tool_calls /\ ~response_message.dump_ok
                   THEN << "Error processing tool calls" >> ELSE <<>>]

(* ---------------------------- chunk loop ------------------------------ *)
accumulate_last(response_content, fragment) == fragment

\* stream_data.response_content += response_content
accumulate(response_content, fragment) == response_content \o fragment

chunk_loop_body_yields_accumulated(response, m, sd) ==
  LET counted == [m EXCEPT !.completion_tokens = Some(Val(@) + 1)]
      first == IF Val(counted.completion_tokens) = 1
               THEN [counted EXCEPT !.time_to_first_token = Some(m.elapsed)]
               ELSE counted
      m1 == IF response.choices > 0 THEN first ELSE m
      has_content == response.choices > 0 /\ ~IsNone(response.content)
      has_tools == response.choices > 0 /\ ~IsNone(response.tool_calls)
      sd1 == IF has_content
             THEN [sd EXCEPT !.response_content = accumulate(@, Val(response.content))]
             ELSE sd
      sd2 == IF has_tools
             THEN [sd1 EXCEPT !.response_tool_calls =
                     Some((IF IsNone(@) THEN <<>> ELSE Val(@)) \o Val(response.tool_calls))]
             ELSE sd1
  IN [metrics |-> IF IsNone(response.usage) THEN m1
                  ELSE add_response_usage_to_metrics(m1, Val(response.usage)),
      stream_data |-> sd2,
      yield |-> IF has_content THEN Some(sd1.response_content) ELSE None]

chunk_loop_body_counts_every_chunk(response, m, sd) ==
  LET counted == [m EXCEPT !.completion_tokens = Some(Val(@) + 1)]
      first == IF Val(counted.completion_tokens) = 1
               THEN [counted EXCEPT !.time_to_first_token = Some(m.elapsed)]
               ELSE counted
      m1 == first
      has_content == response.choices > 0 /\ ~IsNone(response.content)
      has_tools == response.choices > 0 /\ ~IsNone(response.tool_calls)
      sd1 == IF has_content
             THEN [sd EXCEPT !.response_content = accumulate(@, Val(response.content))]
             ELSE sd
      sd2 == IF has_tools
             THEN [sd1 EXCEPT !.response_tool_calls =
                     Some((IF IsNone(@) THEN <<>> ELSE Val(@)) \o Val(response.tool_calls))]
             ELSE sd1
  IN [metrics |-> IF IsNone(response.usage) THEN m1
                  ELSE add_response_usage_to_metrics(m1, Val(response.usage)),
      stream_data |-> sd2,
      yield |-> IF has_content THEN response.content ELSE None]

\* body of `for response in self.invoke_stream(messages)`: returns the
\* Metrics, the StreamData and the content it yields (None: no yield)
chunk_loop_body(response, m, sd) ==
  LET counted == [m EXCEPT !.completion_tokens = Some(Val(@) + 1)]
      first == IF Val(counted.completion_tokens) = 1
               THEN [counted EXCEPT !.time_to_first_token = Some(m.elapsed)]
               ELSE counted
      m1 == IF response.choices > 0 THEN first ELSE m
      has_content == response.choices > 0 /\ ~IsNone(response.content)
      has_tools == response.choices > 0 /\ ~IsNone(response.tool_calls)
      sd1 == IF has_content
             THEN [sd EXCEPT !.response_content = accumulate(@, Val(response.content))]
             ELSE sd
      sd2 == IF has_tools
             THEN [sd1 EXCEPT !.response_tool_calls =
                     Some((IF IsNone(@) THEN <<>> ELSE Val(@)) \o Val(response.tool_calls))]
             ELSE sd1
  IN [metrics |-> IF IsNone(response.usage) THEN m1
                  ELSE add_response_usage_to_metrics(m1, Val(response.usage)),
      stream_data |-> sd2,
      yield |-> IF has_content THEN response.content ELSE None]

aresponse_stream_loop_body_drops_usage(response, m, sd) ==
  LET r == chunk_loop_body(response, m, sd)
  IN [metrics |-> IF response.choices > 0 THEN r.metrics ELSE m,
      stream_data |-> r.stream_data,
      yield |-> r.yield]

\* the body of the `async for` loop of aresponse_stream
aresponse_stream_loop_body(response, m, sd) ==
  LET incremented == [m EXCEPT !.completion_tokens = Some(Val(@) + 1)]
      with_choices ==
        IF Val(incremented.completion_tokens) = 1
        THEN [incremented EXCEPT !.time_to_first_token = Some(m.elapsed)]
        ELSE incremented
      response_content == IF response.choices > 0 THEN response.content ELSE None
      response_tool_calls == IF response.choices > 0 THEN response.tool_calls ELSE None
      after_content ==
        IF IsNone(response_content) THEN sd
        ELSE [sd EXCEPT !.response_content = accumulate(@, Val(response_content))]
      after_tool_calls ==
        IF IsNone(response_tool_calls) THEN after_content
        ELSE [after_content EXCEPT !.response_tool_calls =
                Some((IF IsNone(@) THEN <<>> ELSE Val(@)) \o Val(response_tool_calls))]
      counted == IF response.choices > 0 THEN with_choices ELSE m
  IN [metrics |-> IF IsNone(response.usage) THEN counted
                  ELSE add_response_usage_to_metrics(counted, Val(response.usage)),
      stream_data |-> after_tool_calls,
      yield |-> response_content]

\* the assistant Message response_stream assembles once the stream has ended
stream_assistant_message(sd) ==
  LET plain == Message("assistant",
                       IF sd.response_content # "" THEN Some(sd.response_content) ELSE None)
      built == IF IsNone(sd.response_tool_calls) THEN <<>>
               ELSE build_tool_calls(Val(sd.response_tool_calls))
  IN IF Len(built) > 0 THEN [plain EXCEPT !.tool_calls = Some(built)] ELSE plain

\* the assistant Message aresponse_stream assembles once the stream has ended
aresponse_stream_assistant_message(sd) ==
  LET assistant_message == Message("assistant", None)
      with_content ==
        IF sd.response_content # ""
        THEN [assistant_message EXCEPT !.content = Some(sd.response_content)]
        ELSE assistant_message
  IN IF IsNone(sd.response_tool_calls) THEN with_content
     ELSE LET tool_calls == build_tool_calls(Val(sd.response_tool_calls))
          IN IF Len(tool_calls) > 0
             THEN [with_content EXCEPT !.tool_calls = Some(tool_calls)]
             ELSE with_content

\* response from the completion invoke returned to the tool-call test: what
\* it leaves in the conversation list, the call's Metrics, the lifetime
\* mapping and the ModelResponse, what it logged, and whether tools follow
response_round(c, msgs, m, sm, mr) ==
  LET r == create_assistant_message(c, [m EXCEPT !.elapsed = 1], c.usage, sm)
  IN [messages |-> Append(msgs, r.assistant_message),
      metrics |-> r.metrics,
      self_metrics |-> r.self_metrics,
      model_response |-> IF IsNone(r.assistant_message.content) THEN mr
                         ELSE [mr EXCEPT !.content = r.assistant_message.content],
      warnings |-> r.warnings,
      tools |-> HasToolCalls(r.assistant_message)]

\* aresponse from the completion ainvoke returned to the tool-call test
aresponse_round(c, msgs, m, sm, mr) ==
  LET stopped == [m EXCEPT !.elapsed = 1]
      created == create_assistant_message(c, stopped, c.usage, sm)
      assistant_message == created.assistant_message
      appended == Append(msgs, assistant_message)
  IN [messages |-> appended,
      metrics |-> created.metrics,
      self_metrics |-> created.self_metrics,
      model_response |-> IF ~IsNone(assistant_message.content)
                         THEN [mr EXCEPT !.content = assistant_message.content]
                         ELSE mr,
      warnings |-> created.warnings,
      tools |-> HasToolCalls(assistant_message)]

(* ----------------------------- vendor side ---------------------------- *)
\* what chat.completions.create raises: the vendor SDK's own exceptions
VendorErrors ==
  { [type |-> "groq.NotFoundError", status_code |-> Some(404)] }

Methods == {"response", "aresponse", "response_stream", "aresponse_stream"}
Streaming == {"response_stream", "aresponse_stream"}

\* tool calls a vendor completion / a vendor chunk carries
CompletionToolCalls(c) == IF IsNone(c.tool_calls) THEN 0 ELSE Len(Val(c.tool_calls))
ChunkToolCalls(ch) ==
  IF ch.choices = 0 \/ IsNone(ch.tool_calls) THEN 0 ELSE Len(Val(ch.tool_calls))

(* ------------------------------ actions ------------------------------- *)
GroqInit ==
  /\ messages = << Message("system", Some("You are helpful")),
                   Message("user", Some("Hi")) >>
  /\ self_metrics = EmptyDict
  /\ pc = "idle"
  /\ method = "none"
  /\ metrics = NewMetrics
  /\ stream_data = NewStreamData
  /\ yielded = <<>>
  /\ chunks = <<>>
  /\ model_response = NewModelResponse
  /\ error = None
  /\ at_request = messages
  /\ completion = None
  /\ requests = 0
  /\ streamed = 0
  /\ logged = <<>>

\* entry of response / aresponse / response_stream / aresponse_stream up to
\* the vendor request: fresh Metrics and StreamData, timer started
BeginRound ==
  /\ metrics' = NewMetrics
  /\ stream_data' = NewStreamData
  /\ yielded' = <<>>
  /\ chunks' = <<>>
  /\ completion' = None
  /\ at_request' = messages'
  /\ requests' = requests + 1
  /\ pc' = IF method' \in Streaming THEN "stream" ELSE "invoke"

\* the caller calls one of the four entry points on the conversation list
Call(m) ==
  /\ UNCHANGED outside_groq
  /\ pc \in {"idle", "done", "raised"}
  /\ requests < MaxRequests
  /\ method' = m
  /\ model_response' = NewModelResponse
  /\ error' = None
  /\ logged' = <<>>
  /\ UNCHANGED <<messages, self_metrics, streamed>>
  /\ BeginRound

InvokeRaises_retries ==
  /\ UNCHANGED outside_groq
  /\ pc = "invoke"
  /\ IF requests < MaxRequests
     THEN requests' = requests + 1 /\ UNCHANGED <<error, pc>>
     ELSE /\ \E e \in VendorErrors : error' = Some(e)
          /\ pc' = "raised"
          /\ UNCHANGED requests
  /\ UNCHANGED <<logged, messages, self_metrics, method, metrics, stream_data, yielded, chunks,
                 model_response, at_request, completion, streamed>>

\* invoke / ainvoke raises: nothing catches it on the way to the caller
InvokeRaises ==
  /\ UNCHANGED outside_groq
  /\ pc = "invoke"
  /\ \E e \in VendorErrors : error' = Some(e)
  /\ pc' = "raised"
  /\ UNCHANGED <<logged, messages, self_metrics, method, metrics, stream_data, yielded, chunks,
                 model_response, at_request, completion, requests, streamed>>

\* response / aresponse from the vendor's completion to the tool-call test
InvokeReturns ==
  /\ UNCHANGED outside_groq
  /\ pc = "invoke"
  /\ \E c \in Completions :
       /\ CompletionToolCalls(c) > 0 => requests < MaxRequests
       /\ LET r == IF method = "aresponse"
                   THEN aresponse_round(c, messages, metrics, self_metrics, model_response)
                   ELSE response_round(c, messages, metrics, self_metrics, model_response)
          IN /\ messages' = r.messages
             /\ metrics' = r.metrics
             /\ self_metrics' = r.self_metrics
             /\ model_response' = r.model_response
             /\ logged' = logged \o r.warnings
             /\ pc' = IF r.tools THEN "tools" ELSE "done"
       /\ completion' = Some(c)
  /\ UNCHANGED <<method, stream_data, yielded, chunks, error, at_request, requests, streamed>>

\* one pass of the chunk loop of response_stream / aresponse_stream, on the
\* chunk ch
ConsumeChunk(ch) ==
  /\ UNCHANGED outside_groq
  /\ pc = "stream"
  /\ streamed < MaxChunks
  /\ streamed' = streamed + 1
  /\ ChunkToolCalls(ch) > 0 => requests < MaxRequests
  /\ LET m == [metrics EXCEPT !.elapsed = Len(chunks) + 1]
         r == IF method = "aresponse_stream"
              THEN aresponse_stream_loop_body(ch, m, stream_data)
              ELSE chunk_loop_body(ch, m, stream_data)
     IN /\ metrics' = r.metrics
        /\ stream_data' = r.stream_data
        /\ yielded' = IF IsNone(r.yield) THEN yielded ELSE Append(yielded, Val(r.yield))
  /\ chunks' = Append(chunks, ch)
  /\ UNCHANGED <<logged, messages, self_metrics, pc, method, model_response, error, at_request,
                 completion, requests>>

\* the vendor sends the next chunk of the stream
StreamChunk == \E ch \in Chunks : ConsumeChunk(ch)

StreamRaises_partial ==
  /\ UNCHANGED outside_groq
  /\ pc = "stream"
  /\ \E e \in VendorErrors : error' = Some(e)
  /\ pc' = "raised"
  /\ messages' = Append(messages, stream_assistant_message(stream_data))
  /\ UNCHANGED <<logged, self_metrics, method, metrics, stream_data, yielded, chunks,
                 model_response, at_request, completion, requests, streamed>>

StreamRaises_records_time ==
  /\ UNCHANGED outside_groq
  /\ pc = "stream"
  /\ \E e \in VendorErrors : error' = Some(e)
  /\ pc' = "raised"
  /\ self_metrics' = AppendTo(self_metrics, "response_times", Len(chunks) + 1)
  /\ UNCHANGED <<logged, messages, method, metrics, stream_data, yielded, chunks,
                 model_response, at_request, completion, requests, streamed>>

\* the vendor stream raises instead of delivering the next chunk
StreamRaises ==
  /\ UNCHANGED outside_groq
  /\ pc = "stream"
  /\ \E e \in VendorErrors : error' = Some(e)
  /\ pc' = "raised"
  /\ UNCHANGED <<logged, messages, self_metrics, method, metrics, stream_data, yielded, chunks,
                 model_response, at_request, completion, requests, streamed>>

StreamEnds_skips_empty ==
  /\ UNCHANGED outside_groq
  /\ pc = "stream"
  /\ LET r == update_stream_metrics(stream_assistant_message(stream_data), metrics,
                                    self_metrics)
     IN /\ messages' = IF IsNone(r.assistant_message.content) THEN messages
                        ELSE Append(messages, r.assistant_message)
        /\ self_metrics' = r.self_metrics
        /\ pc' = "done"
  /\ UNCHANGED <<logged, method, metrics, stream_data, yielded, chunks, model_response, error,
                 at_request, completion, requests, streamed>>

\* the vendor stream ends: response_stream / aresponse_stream from
\* stop_response_timer to the tool-call test
StreamEnds ==
  /\ UNCHANGED outside_groq
  /\ pc = "stream"
  /\ LET assistant_message ==
           IF method = "aresponse_stream"
           THEN aresponse_stream_assistant_message(stream_data)
           ELSE stream_assistant_message(stream_data)
         r == update_stream_metrics(assistant_message, metrics, self_metrics)
     IN /\ messages' = Append(messages, r.assistant_message)
        /\ self_metrics' = r.self_metrics
        /\ pc' = IF HasToolCalls(r.assistant_message) THEN "tools" ELSE "done"
  /\ UNCHANGED <<logged, method, metrics, stream_data, yielded, chunks, model_response, error,
                 at_request, completion, requests, streamed>>

DispatchTools_request_first ==
  /\ UNCHANGED outside_groq
  /\ pc = "tools"
  /\ messages' = handle_tool_calls(messages[Len(messages)], messages)
  /\ UNCHANGED <<logged, self_metrics, method, model_response, error, streamed>>
  /\ metrics' = NewMetrics
  /\ stream_data' = NewStreamData
  /\ yielded' = <<>>
  /\ chunks' = <<>>
  /\ completion' = None
  /\ at_request' = messages
  /\ requests' = requests + 1
  /\ pc' = IF method \in Streaming THEN "stream" ELSE "invoke"

\* tool dispatch and the follow-up model call of the same entry point
DispatchTools ==
  /\ UNCHANGED outside_groq
  /\ pc = "tools"
  /\ messages' = handle_tool_calls(messages[Len(messages)], messages)
  /\ UNCHANGED <<logged, self_metrics, method, model_response, error, streamed>>
  /\ BeginRound

(* -------------- concurrent calls through one adapter ------------------ *)
\* two calls in flight on the same Groq instance, each with its own
\* conversation list
Calls == {1, 2}

\* the entry points two threads can be inside at once: the blocking ones
ConcMethods == {"response", "response_stream"}

\* the vendor's chunks and completions for them (no tool calls): each call's
\* stream has its own text, "Hello" for call 1 and " world" for call 2
ConcChunks(t) ==
  {ch \in Chunks : \/ ch.content = Some(IF t = 1 THEN "Hello" ELSE " world")
                   \/ ~IsNone(ch.usage)}
ConcCompletions == {c \in Completions : IsNone(c.tool_calls) /\ ~IsNone(c.content)}

\* the order of the running-total statements of update_usage_metrics and of
\* update_stream_metrics
UsageOrder ==
  << "input_tokens", "prompt_tokens", "output_tokens", "completion_tokens", "total_tokens",
     "completion_time", "prompt_time", "queue_time", "total_time" >>
StreamOrder ==
  << "input_tokens", "output_tokens", "prompt_tokens", "completion_tokens", "total_tokens",
     "completion_time", "prompt_time", "queue_time", "total_time" >>

\* the statements a call executes: those whose `is not None` test passes
Statements(order, reported) ==
  LET Reports(k) == k \in DOMAIN reported
  IN SelectSeq(order, Reports)

\* the right-hand side's self.metrics.get(k, 0)
LifetimeRead(sm, k) == Get(sm, k, 0)

LifetimeWrite_overwrite(sm, k, read, v) == Put(sm, k, v)

\* self.metrics[k] = <the value read> + v
LifetimeWrite(sm, k, read, v) == Put(sm, k, read + v)

\* the two list appends of an update, which are single dict / list calls:
\* `after` is the mapping the whole update would leave, `before` the current one
ListAppends(after, before) ==
  LET lists == {"response_times", "time_to_first_token"} \cap DOMAIN after
  IN [k \in DOMAIN before \cup lists |-> IF k \in lists THEN after[k] ELSE before[k]]

ConcInit ==
  /\ c_pc = [t \in Calls |-> "idle"]
  /\ c_method = [t \in Calls |-> "none"]
  /\ c_messages = [t \in Calls |->
                     << Message("system", Some("You are helpful")),
                        Message("user", Some(IF t = 1 THEN "Hi" ELSE "Hello")) >>]
  /\ c_metrics = [t \in Calls |-> NewMetrics]
  /\ c_stream_data = [t \in Calls |-> NewStreamData]
  /\ c_chunks = [t \in Calls |-> <<>>]
  /\ c_assistant = [t \in Calls |-> None]
  /\ c_reported = [t \in Calls |-> EmptyDict]
  /\ c_todo = [t \in Calls |-> <<>>]
  /\ c_read = [t \in Calls |-> None]
  /\ lost = EmptyDict
  /\ interleaved = 0

\* call t enters response / aresponse / response_stream / aresponse_stream
ConcCall(t, m) ==
  /\ UNCHANGED outside_conc
  /\ c_pc[t] = "idle"
  /\ c_method' = [c_method EXCEPT ![t] = m]
  /\ c_pc' = [c_pc EXCEPT ![t] = IF m \in Streaming THEN "stream" ELSE "invoke"]
  /\ UNCHANGED <<self_metrics, c_messages, c_metrics, c_stream_data, c_chunks, c_assistant,
                 c_reported, c_todo, c_read, lost, interleaved>>

\* call t, non-streaming: the completion arrives and create_assistant_message
\* runs up to the first running-total statement of update_usage_metrics
ConcInvokeReturns(t) ==
  /\ UNCHANGED outside_conc
  /\ c_pc[t] = "invoke"
  /\ \E c \in ConcCompletions :
       LET r == create_assistant_message(c, [c_metrics[t] EXCEPT !.elapsed = 1],
                                         c.usage, self_metrics)
           reported == [k \in UsageReported(c.usage) |-> Val(Val(c.usage)[UsageField(k)])]
       IN /\ c_assistant' = [c_assistant EXCEPT ![t] = Some(r.assistant_message)]
          /\ c_metrics' = [c_metrics EXCEPT ![t] = r.metrics]
          /\ self_metrics' = ListAppends(r.self_metrics, self_metrics)
          /\ c_reported' = [c_reported EXCEPT ![t] = reported]
          /\ c_todo' = [c_todo EXCEPT ![t] = Statements(UsageOrder, reported)]
  /\ c_pc' = [c_pc EXCEPT ![t] = "update"]
  /\ UNCHANGED <<c_method, c_messages, c_stream_data, c_chunks, c_read, lost, interleaved>>

ConcStreamChunk_shared_stream_data(t) ==
  /\ UNCHANGED outside_conc
  /\ c_pc[t] = "stream"
  /\ interleaved < MaxInterleaved
  /\ interleaved' = interleaved + 1
  /\ \E ch \in ConcChunks(t) :
       LET r == chunk_loop_body(ch, [c_metrics[t] EXCEPT !.elapsed = Len(c_chunks[t]) + 1],
                                c_stream_data[t])
       IN /\ c_metrics' = [c_metrics EXCEPT ![t] = r.metrics]
          /\ c_stream_data' = [u \in Calls |-> r.stream_data]
          /\ c_chunks' = [c_chunks EXCEPT ![t] = Append(@, ch)]
  /\ UNCHANGED <<self_metrics, c_pc, c_method, c_messages, c_assistant, c_reported, c_todo,
                 c_read, lost>>

\* call t, streaming: one pass of its chunk loop
ConcStreamChunk(t) ==
  /\ UNCHANGED outside_conc
  /\ c_pc[t] = "stream"
  /\ interleaved < MaxInterleaved
  /\ interleaved' = interleaved + 1
  /\ \E ch \in ConcChunks(t) :
       LET r == chunk_loop_body(ch, [c_metrics[t] EXCEPT !.elapsed = Len(c_chunks[t]) + 1],
                                c_stream_data[t])
       IN /\ c_metrics' = [c_metrics EXCEPT ![t] = r.metrics]
          /\ c_stream_data' = [c_stream_data EXCEPT ![t] = r.stream_data]
          /\ c_chunks' = [c_chunks EXCEPT ![t] = Append(@, ch)]
  /\ UNCHANGED <<self_metrics, c_pc, c_method, c_messages, c_assistant, c_reported, c_todo,
                 c_read, lost>>

\* call t, streaming: its stream ends; the assistant Message is assembled and
\* update_stream_metrics runs up to its first running-total statement
ConcStreamEnds(t) ==
  /\ UNCHANGED outside_conc
  /\ c_pc[t] = "stream"
  /\ LET r == update_stream_metrics(stream_assistant_message(c_stream_data[t]),
                                    c_metrics[t], self_metrics)
         reported == [k \in StreamReported(c_metrics[t]) |-> Val(c_metrics[t][k])]
     IN /\ c_assistant' = [c_assistant EXCEPT ![t] = Some(r.assistant_message)]
        /\ self_metrics' = ListAppends(r.self_metrics, self_metrics)
        /\ c_reported' = [c_reported EXCEPT ![t] = reported]
        /\ c_todo' = [c_todo EXCEPT ![t] = Statements(StreamOrder, reported)]
  /\ c_pc' = [c_pc EXCEPT ![t] = "update"]
  /\ UNCHANGED <<c_method, c_messages, c_metrics, c_stream_data, c_chunks, c_read, lost,
                 interleaved>>

\* call t evaluates the right-hand side of its next running-total statement
ConcRead(t) ==
  /\ UNCHANGED outside_conc
  /\ c_pc[t] = "update"
  /\ c_todo[t] # <<>>
  /\ IsNone(c_read[t])
  /\ c_read' = [c_read EXCEPT ![t] = Some(LifetimeRead(self_metrics, Head(c_todo[t])))]
  /\ UNCHANGED <<self_metrics, c_pc, c_method, c_messages, c_metrics, c_stream_data,
                 c_chunks, c_assistant, c_reported, c_todo, lost, interleaved>>

\* call t stores the sum into the mapping: whatever another call has stored
\* there since the read is overwritten
ConcWrite(t) ==
  /\ UNCHANGED outside_conc
  /\ c_pc[t] = "update"
  /\ ~IsNone(c_read[t])
  /\ LET k == Head(c_todo[t])
         overwritten == LifetimeRead(self_metrics, k) - Val(c_read[t])
     IN /\ self_metrics' = LifetimeWrite(self_metrics, k, Val(c_read[t]), c_reported[t][k])
        /\ lost' = IF overwritten = 0 THEN lost
                   ELSE Put(lost, k, Get(lost, k, 0) + overwritten)
  /\ c_todo' = [c_todo EXCEPT ![t] = Tail(@)]
  /\ c_read' = [c_read EXCEPT ![t] = None]
  /\ UNCHANGED <<c_pc, c_method, c_messages, c_metrics, c_stream_data, c_chunks,
                 c_assistant, c_reported, interleaved>>

\* call t has run its last running-total statement: messages.append
ConcAppend(t) ==
  /\ UNCHANGED outside_conc
  /\ c_pc[t] = "update"
  /\ c_todo[t] = <<>>
  /\ c_messages' = [c_messages EXCEPT ![t] = Append(@, Val(c_assistant[t]))]
  /\ c_pc' = [c_pc EXCEPT ![t] = "done"]
  /\ UNCHANGED <<self_metrics, c_method, c_metrics, c_stream_data, c_chunks, c_assistant,
                 c_reported, c_todo, c_read, lost, interleaved>>

ConcNext ==
  \/ \E t \in Calls, m \in ConcMethods : ConcCall(t, m)
  \/ \E t \in Calls : ConcInvokeReturns(t)
  \/ \E t \in Calls : ConcStreamChunk(t)
  \/ \E t \in Calls : ConcStreamEnds(t)
  \/ \E t \in Calls : ConcRead(t)
  \/ \E t \in Calls : ConcWrite(t)
  \/ \E t \in Calls : ConcAppend(t)

(* ---------------------------- PDFUrlReader ---------------------------- *)
\* `for attempt in range(3)`
Attempts == 3

\* pages of the PDF behind the url
MaxPages == 2

Urls == {"", "https://example.com/paper.pdf", "https://example.com/my paper.v2.pdf"}

\* url.split("/")[-1].split(".")[0].replace("/", "_").replace(" ", "_")
doc_name(u) ==
  CASE u = "https://example.com/paper.pdf" -> "paper"
    [] u = "https://example.com/my paper.v2.pdf" -> "my_paper"
    [] OTHER -> u

\* _build_document: name, id f"{doc_name}_{page_number}", meta_data page
build_document(name, page_number) ==
  [name |-> name, id |-> <<name, page_number>>, page |-> page_number]

\* Reader.chunk_document on a page that fits one chunk
chunk_document(document) == <<document>>

RECURSIVE build_chunked_documents(_)
\* BasePdfReader._build_chunked_documents
build_chunked_documents(docs) ==
  IF docs = <<>> THEN <<>>
  ELSE chunk_document(Head(docs)) \o build_chunked_documents(Tail(docs))

Power2_constant(n) == 1

RECURSIVE Power2(_)
\* 2**attempt
Power2(n) == IF n = 0 THEN 1 ELSE 2 * Power2(n - 1)

\* `if attempt == 2:  # Last attempt`
LastAttempt(a) == a = 2

\* how a fetch (httpx.get / client.get) can end: it raises httpx.RequestError,
\* or it returns a response with a status and, when that is 200, a PDF of
\* some pages
FetchRaised == [raised |-> TRUE, status_code |-> 0, pages |-> 0]
Responded(status_code, pages) ==
  [raised |-> FALSE, status_code |-> status_code, pages |-> pages]
\* response.raise_for_status() raises
IsHttpError(outcome) == ~outcome.raised /\ outcome.status_code >= 400

PdfInit ==
  /\ reader = "none"
  /\ pdf_pc = "idle"
  /\ pdf_method = "none"
  /\ url = ""
  /\ chunk = FALSE
  /\ attempt = 0
  /\ slept = <<>>
  /\ pdf_log = <<>>
  /\ documents = None
  /\ pdf_error = None
  /\ outcomes = <<>>

\* read / async_read, of a reader built with chunk = c, up to the retry loop
PdfCall(m, u, c) ==
  /\ UNCHANGED outside_pdf
  /\ pdf_pc \in {"idle", "returned", "raised"}
  /\ reader' = "PDFUrlReader"
  /\ pdf_method' = m
  /\ url' = u
  /\ attempt' = 0
  /\ slept' = <<>>
  /\ pdf_log' = <<>>
  /\ documents' = None
  /\ outcomes' = <<>>
  /\ IF u = ""
     THEN pdf_pc' = "raised" /\ pdf_error' = Some("ValueError")
     ELSE pdf_pc' = "fetch" /\ pdf_error' = None
  /\ chunk' = c

\* httpx.get / client.get raises httpx.RequestError: the except clause
PdfFetchFails ==
  /\ UNCHANGED outside_pdf
  /\ reader = "PDFUrlReader"
  /\ pdf_pc = "fetch"
  /\ outcomes' = Append(outcomes, FetchRaised)
  /\ IF LastAttempt(attempt)
     THEN /\ pdf_log' = Append(pdf_log, [level |-> "error", attempts |-> Attempts])
          /\ pdf_pc' = "raised"
          /\ pdf_error' = Some("httpx.RequestError")
          /\ UNCHANGED <<attempt, slept>>
     ELSE /\ pdf_log' = Append(pdf_log, [level |-> "warning", wait_time |-> Power2(attempt)])
          /\ slept' = Append(slept, Power2(attempt))
          /\ attempt' = attempt + 1
          /\ UNCHANGED <<pdf_pc, pdf_error>>
  /\ UNCHANGED <<reader, pdf_method, url, chunk, documents>>

PdfHttpError_retries ==
  /\ UNCHANGED outside_pdf
  /\ reader = "PDFUrlReader"
  /\ pdf_pc = "fetch"
  /\ \E status \in {404, 500} :
       /\ outcomes' = Append(outcomes, Responded(status, 0))
       /\ IF LastAttempt(attempt)
          THEN /\ pdf_log' = Append(pdf_log, [level |-> "error", status_code |-> status])
               /\ pdf_pc' = "raised"
               /\ pdf_error' = Some("httpx.HTTPStatusError")
               /\ UNCHANGED <<attempt, slept>>
          ELSE /\ pdf_log' = Append(pdf_log, [level |-> "warning",
                                              wait_time |-> Power2(attempt)])
               /\ slept' = Append(slept, Power2(attempt))
               /\ attempt' = attempt + 1
               /\ UNCHANGED <<pdf_pc, pdf_error>>
  /\ UNCHANGED <<reader, pdf_method, url, chunk, documents>>

\* the fetch returns a response with an error status: raise_for_status raises
PdfHttpError ==
  /\ UNCHANGED outside_pdf
  /\ reader = "PDFUrlReader"
  /\ pdf_pc = "fetch"
  /\ \E status \in {404, 500} :
       /\ outcomes' = Append(outcomes, Responded(status, 0))
       /\ pdf_log' = Append(pdf_log, [level |-> "error", status_code |-> status])
  /\ pdf_pc' = "raised"
  /\ pdf_error' = Some("httpx.HTTPStatusError")
  /\ UNCHANGED <<reader, pdf_method, url, chunk, attempt, slept, documents>>

\* the fetch returns a PDF of n pages: the rest of read / async_read.
\* async_read calls its two-parameter process_page with three arguments,
\* which raises TypeError as soon as there is a page.
PdfFetched ==
  /\ UNCHANGED outside_pdf
  /\ reader = "PDFUrlReader"
  /\ pdf_pc = "fetch"
  /\ \E n \in 0..MaxPages :
       LET docs == [i \in 1..n |-> build_document(doc_name(url), i)]
       IN /\ outcomes' = Append(outcomes, Responded(200, n))
          /\ IF pdf_method = "async_read" /\ n > 0
             THEN /\ pdf_pc' = "raised"
                  /\ pdf_error' = Some("TypeError")
                  /\ UNCHANGED documents
             ELSE /\ pdf_pc' = "returned"
                  /\ documents' = Some(IF chunk THEN build_chunked_documents(docs)
                                       ELSE docs)
                  /\ UNCHANGED pdf_error
  /\ UNCHANGED <<reader, pdf_method, url, chunk, attempt, slept, pdf_log>>

\* PDFUrlReader.read as a function of its inputs: the url, the reader's chunk
\* flag and how the fetches it makes end, the last of them ending the loop
PDFUrlReader_read(u, c, fetches) ==
  IF u = "" THEN [documents |-> None, error |-> Some("ValueError")]
  ELSE LET response == fetches[Len(fetches)]
           docs == [i \in 1..response.pages |-> build_document(doc_name(u), i)]
       IN IF response.raised
          THEN [documents |-> None, error |-> Some("httpx.RequestError")]
          ELSE IF IsHttpError(response)
          THEN [documents |-> None, error |-> Some("httpx.HTTPStatusError")]
          ELSE [documents |-> Some(IF c THEN build_chunked_documents(docs) ELSE docs),
                error |-> None]

(* -------------------------- PDFUrlImageReader ------------------------- *)
\* _build_image_document: the same name, id and meta_data as _build_document
build_image_document(name, page_number) ==
  [name |-> name, id |-> <<name, page_number>>, page |-> page_number]

\* PDFUrlImageReader.read / async_read, of a reader built with chunk = c, up
\* to the fetch
ImageCall(m, u, c) ==
  /\ UNCHANGED outside_pdf
  /\ pdf_pc \in {"idle", "returned", "raised"}
  /\ reader' = "PDFUrlImageReader"
  /\ pdf_method' = m
  /\ url' = u
  /\ attempt' = 0
  /\ slept' = <<>>
  /\ pdf_log' = <<>>
  /\ documents' = None
  /\ outcomes' = <<>>
  /\ IF u = ""
     THEN pdf_pc' = "raised" /\ pdf_error' = Some("ValueError")
     ELSE pdf_pc' = "fetch" /\ pdf_error' = None
  /\ chunk' = c

\* httpx.get / client.get raises httpx.RequestError: there is no try around it
ImageFetchFails ==
  /\ UNCHANGED outside_pdf
  /\ reader = "PDFUrlImageReader"
  /\ pdf_pc = "fetch"
  /\ outcomes' = Append(outcomes, FetchRaised)
  /\ pdf_pc' = "raised"
  /\ pdf_error' = Some("httpx.RequestError")
  /\ UNCHANGED <<reader, pdf_method, url, chunk, attempt, slept, pdf_log, documents>>

\* the fetch returns a response with an error status: async_read calls
\* raise_for_status; read hands the body, which is no PDF, to pypdf
ImageHttpError ==
  /\ UNCHANGED outside_pdf
  /\ reader = "PDFUrlImageReader"
  /\ pdf_pc = "fetch"
  /\ \E status \in {404, 500} : outcomes' = Append(outcomes, Responded(status, 0))
  /\ pdf_pc' = "raised"
  /\ pdf_error' = Some(IF pdf_method = "async_read" THEN "httpx.HTTPStatusError"
                                                     ELSE "pypdf.errors.PdfReadError")
  /\ UNCHANGED <<reader, pdf_method, url, chunk, attempt, slept, pdf_log, documents>>

\* the fetch returns a PDF of n pages: the rest of read / async_read
ImageFetched ==
  /\ UNCHANGED outside_pdf
  /\ reader = "PDFUrlImageReader"
  /\ pdf_pc = "fetch"
  /\ \E n \in 0..MaxPages :
       LET docs == [i \in 1..n |-> build_image_document(doc_name(url), i)]
       IN /\ outcomes' = Append(outcomes, Responded(200, n))
          /\ documents' = Some(IF chunk THEN build_chunked_documents(docs) ELSE docs)
  /\ pdf_pc' = "returned"
  /\ UNCHANGED <<reader, pdf_method, url, chunk, attempt, slept, pdf_log, pdf_error>>

PdfNext ==
  \/ \E m \in {"read", "async_read"}, u \in Urls, c \in BOOLEAN : PdfCall(m, u, c)
  \/ PdfFetchFails
  \/ PdfHttpError
  \/ PdfFetched
  \/ \E m \in {"read", "async_read"}, u \in Urls, c \in BOOLEAN : ImageCall(m, u, c)
  \/ ImageFetchFails
  \/ ImageHttpError
  \/ ImageFetched

(* ----------------------- MongoDbWorkflowStorage ----------------------- *)
SessionIds == {"s1", "s2"}
UserIds == {"u1", "u2"}

\* the fields of a WorkflowSession the caller sets
SessionFields == {"session_id", "user_id", "session_data"}

\* the WorkflowSession objects callers upsert
Sessions == [session_id : SessionIds, user_id : UserIds, session_data : {"a", "b"}]

\* WorkflowSession.to_dict: the session's fields as a dict
to_dict(session) == session

\* WorkflowSession.from_dict: the fields of a WorkflowSession taken from a
\* document; other keys (_version) are not fields of the session
from_dict(doc) ==
  [f \in DOMAIN doc \cap (SessionFields \cup {"created_at", "updated_at"}) |-> doc[f]]

\* collection.find_one(query): the document with query's session_id whose
\* fields equal the query's, None if there is none
find_one(coll, query) ==
  IF /\ query["session_id"] \in DOMAIN coll
     /\ \A f \in DOMAIN query : f \in DOMAIN coll[query["session_id"]]
                                /\ coll[query["session_id"]][f] = query[f]
  THEN Some(coll[query["session_id"]])
  ELSE None

update_one_set_on_insert(coll, session_id, update_data) ==
  IF session_id \in DOMAIN coll THEN coll
  ELSE (session_id :> update_data) @@ coll

\* collection.update_one({"session_id": id}, {"$set": update_data}, upsert=True):
\* the fields of update_data replace the document's, its other fields stay
update_one_set(coll, session_id, update_data) ==
  IF session_id \in DOMAIN coll
  THEN [coll EXCEPT ![session_id] = update_data @@ coll[session_id]]
  ELSE (session_id :> update_data) @@ coll

\* collection.delete_one({"session_id": id})
delete_one(coll, session_id) == [i \in DOMAIN coll \ {session_id} |-> coll[i]]

\* MongoDbWorkflowStorage.read: user_id is Optional and joins the query when set
read(coll, session_id, user_id) ==
  LET query == IF IsNone(user_id) THEN [session_id |-> session_id]
               ELSE [session_id |-> session_id, user_id |-> Val(user_id)]
      doc == find_one(coll, query)
  IN IF IsNone(doc) THEN None ELSE Some(from_dict(Val(doc)))

\* the document fields MongoDbWorkflowStorage.upsert passes to $set
update_data_of(session, coll, timestamp) ==
  LET session_dict == to_dict(session)
      versioned == IF "_version" \notin DOMAIN session_dict
                   THEN Put(session_dict, "_version", 1)
                   ELSE Put(session_dict, "_version", session_dict["_version"] + 1)
      stamped == Put(versioned, "updated_at", timestamp)
  IN IF IsNone(find_one(coll, [session_id |-> session.session_id]))
     THEN Put(stamped, "created_at", timestamp)
     ELSE stamped

MongoInit ==
  /\ collection = EmptyDict
  /\ upserted = [i \in SessionIds |-> None]
  /\ mongo_result = None
  /\ mongo_ops = 0

\* MongoDbWorkflowStorage.upsert, acknowledged
MongoUpsert(session) ==
  /\ UNCHANGED outside_mongo
  /\ mongo_ops < MaxOps
  /\ mongo_ops' = mongo_ops + 1
  /\ collection' = update_one_set(collection, session.session_id,
                                  update_data_of(session, collection, mongo_ops + 1))
  /\ mongo_result' = read(collection', session.session_id, None)
  /\ upserted' = [upserted EXCEPT ![session.session_id] = Some(session)]

\* MongoDbWorkflowStorage.upsert when pymongo raises PyMongoError: logged,
\* None returned, nothing stored
MongoUpsertFails(session) ==
  /\ UNCHANGED outside_mongo
  /\ mongo_ops < MaxOps
  /\ mongo_ops' = mongo_ops + 1
  /\ mongo_result' = None
  /\ UNCHANGED <<collection, upserted>>

\* MongoDbWorkflowStorage.read
MongoRead(session_id, user_id) ==
  /\ UNCHANGED outside_mongo
  /\ mongo_result' = read(collection, session_id, user_id)
  /\ UNCHANGED <<collection, upserted, mongo_ops>>

\* MongoDbWorkflowStorage.delete_session: a None id is logged and ignored
MongoDeleteSession(session_id) ==
  /\ UNCHANGED outside_mongo
  /\ mongo_ops < MaxOps
  /\ mongo_ops' = mongo_ops + 1
  /\ mongo_result' = None
  /\ IF IsNone(session_id)
     THEN UNCHANGED <<collection, upserted>>
     ELSE /\ collection' = delete_one(collection, Val(session_id))
          /\ upserted' = [upserted EXCEPT ![Val(session_id)] = None]

\* MongoDbWorkflowStorage.drop
MongoDrop ==
  /\ UNCHANGED outside_mongo
  /\ mongo_ops < MaxOps
  /\ mongo_ops' = mongo_ops + 1
  /\ mongo_result' = None
  /\ collection' = EmptyDict
  /\ upserted' = [i \in SessionIds |-> None]

MongoNext ==
  \/ \E session \in Sessions : MongoUpsert(session)
  \/ \E session \in Sessions : MongoUpsertFails(session)
  \/ \E i \in SessionIds, u \in {None} \cup {Some(v) : v \in UserIds} : MongoRead(i, u)
  \/ \E i \in {None} \cup {Some(v) : v \in SessionIds} : MongoDeleteSession(i)
  \/ MongoDrop

(* ------------------------ client construction ------------------------- *)
\* the httpx client a caller passes as http_client, with httpx's own limits
OwnHttpClient ==
  [class |-> "httpx.Client", max_connections |-> 100, max_keepalive_connections |-> 20,
   serial |-> 0]

\* httpx.AsyncClient(limits=httpx.Limits(max_connections=1000,
\* max_keepalive_connections=100)), the n-th object constructed
NewAsyncHttpClient(n) ==
  [class |-> "httpx.AsyncClient", max_connections |-> 1000,
   max_keepalive_connections |-> 100, serial |-> n]

\* GroqClient(**client_params) / AsyncGroqClient(**client_params), the n-th
\* object constructed
NewClient(class, client_params, n) ==
  [class |-> class, params |-> client_params, serial |-> n]

\* the clients a caller passes as client / async_client
OwnClient == NewClient("GroqClient", [api_key |-> "own-key"], 0)
OwnAsyncClient == NewClient("AsyncGroqClient", [api_key |-> "own-key"], 0)

\* the client fields of the dataclass as declared: all None
NewAdapter ==
  [api_key |-> None, base_url |-> None, timeout |-> None, max_retries |-> None,
   default_headers |-> None, default_query |-> None, http_client |-> None,
   client_params |-> None, client |-> None, async_client |-> None]

\* Groq(...): the client fields a caller may set
Adapters ==
  [api_key : {None, Some("key")},
   base_url : {None, Some("https://proxy.example.com")},
   timeout : {None, Some(30)},
   max_retries : {None},
   default_headers : {None},
   default_query : {None},
   http_client : {None, Some(OwnHttpClient)},
   client_params : {None, Some([api_key |-> "params-key"]), Some([timeout |-> 5])},
   client : {None, Some(OwnClient)},
   async_client : {None, Some(OwnAsyncClient)}]

\* `if self.<field>: client_params[<field>] = self.<field>`
PutIfSet(client_params, self, field) ==
  IF IsNone(self[field]) THEN client_params ELSE Put(client_params, field, Val(self[field]))

get_client_params_raises(self, env) ==
  [self |-> self, client_params |-> EmptyDict, log |-> <<>>,
   error |-> IF IsNone(self.api_key) /\ IsNone(env) THEN Some("ValueError") ELSE None]

\* Groq.get_client_params: the instance after the call, the dict returned,
\* the errors logged and the exception raised (never one)
get_client_params(self, env) ==
  LET api_key == IF IsNone(self.api_key) THEN env ELSE self.api_key
      self1 == [self EXCEPT !.api_key = api_key]
      p0 == PutIfSet(EmptyDict, self1, "api_key")
      p1 == PutIfSet(p0, self1, "base_url")
      p2 == PutIfSet(p1, self1, "timeout")
      p3 == PutIfSet(p2, self1, "max_retries")
      p4 == PutIfSet(p3, self1, "default_headers")
      p5 == PutIfSet(p4, self1, "default_query")
  IN [self |-> self1,
      client_params |-> IF IsNone(self1.client_params) THEN p5
                        ELSE Val(self1.client_params) @@ p5,
      log |-> IF IsNone(api_key)
              THEN << "GROQ_API_KEY not set. Please set the GROQ_API_KEY environment variable." >>
              ELSE <<>>,
      error |-> None]

get_client_stores(self, env, n) ==
  IF ~IsNone(self.client)
  THEN [self |-> self, client |-> Val(self.client), log |-> <<>>, constructed |-> n]
  ELSE LET r == get_client_params(self, env)
           c == NewClient("GroqClient", r.client_params, n + 1)
       IN [self |-> [r.self EXCEPT !.client = Some(c)], client |-> c, log |-> r.log,
           constructed |-> n + 1]

\* Groq.get_client: the instance after the call, the client returned, the
\* errors logged and the number of clients constructed so far
get_client(self, env, n) ==
  IF ~IsNone(self.client)
  THEN [self |-> self, client |-> Val(self.client), log |-> <<>>, constructed |-> n]
  ELSE LET r == get_client_params(self, env)
           client_params == PutIfSet(r.client_params, r.self, "http_client")
       IN [self |-> r.self,
           client |-> NewClient("GroqClient", client_params, n + 1),
           log |-> r.log,
           constructed |-> n + 1]

\* Groq.get_async_client
get_async_client(self, env, n) ==
  IF ~IsNone(self.async_client)
  THEN [self |-> self, client |-> Val(self.async_client), log |-> <<>>, constructed |-> n]
  ELSE LET r == get_client_params(self, env)
           client_params ==
             IF ~IsNone(r.self.http_client)
             THEN Put(r.client_params, "http_client", Val(r.self.http_client))
             ELSE Put(r.client_params, "http_client", NewAsyncHttpClient(n + 1))
       IN [self |-> r.self,
           client |-> NewClient("AsyncGroqClient", client_params, n + 1),
           log |-> r.log,
           constructed |-> n + 1]

\* the vendor-request methods and the getter each of them calls
RequestMethods == {"invoke", "ainvoke", "invoke_stream", "ainvoke_stream"}
ClientGetter(m, self, env, n) ==
  IF m \in {"invoke", "invoke_stream"} THEN get_client(self, env, n)
  ELSE get_async_client(self, env, n)

\* what the SDK's constructor may do with the parameters: it needs an api_key
ConstructorOutcomes(r, n) ==
  IF r.constructed > n /\ "api_key" \notin DOMAIN r.client.params
  THEN {"returns", "raises"} ELSE {"returns"}

NoResult == [op |-> "none", params |-> None, client |-> None, error |-> None]

ClientInit ==
  /\ client_pc = "new"
  /\ adapter = NewAdapter
  /\ environ = None
  /\ client_log = <<>>
  /\ client_result = NoResult
  /\ constructed = 0
  /\ client_calls = 0

\* Groq(...) is constructed in some environment
ClientConfigure ==
  /\ UNCHANGED outside_client
  /\ client_pc = "new"
  /\ client_pc' = "ready"
  /\ adapter' \in Adapters
  /\ environ' \in {None, Some("env-key")}
  /\ UNCHANGED <<client_log, client_result, constructed, client_calls>>

\* a call of get_client_params
ClientGetParams ==
  /\ UNCHANGED outside_client
  /\ client_pc = "ready"
  /\ client_calls < MaxClientCalls
  /\ client_calls' = client_calls + 1
  /\ LET r == get_client_params(adapter, environ)
     IN /\ adapter' = r.self
        /\ client_log' = client_log \o r.log
        /\ client_result' = [NoResult EXCEPT !.op = "get_client_params",
                                             !.params = IF IsNone(r.error)
                                                        THEN Some(r.client_params)
                                                        ELSE None,
                                             !.error = r.error]
  /\ UNCHANGED <<client_pc, environ, constructed>>

\* the getter of method m runs; without an api_key the SDK's constructor may
\* raise, and then nothing has been constructed
ClientGot(op, r) ==
  /\ \E outcome \in ConstructorOutcomes(r, constructed) :
       /\ constructed' = IF outcome = "returns" THEN r.constructed ELSE constructed
       /\ client_result' =
            IF outcome = "returns"
            THEN [NoResult EXCEPT !.op = op, !.client = Some(r.client)]
            ELSE [NoResult EXCEPT !.op = op, !.error = Some("GroqError")]
  /\ adapter' = r.self
  /\ client_log' = client_log \o r.log

\* a call of get_client
ClientGet ==
  /\ UNCHANGED outside_client
  /\ client_pc = "ready"
  /\ client_calls < MaxClientCalls
  /\ client_calls' = client_calls + 1
  /\ ClientGot("get_client", get_client(adapter, environ, constructed))
  /\ UNCHANGED <<client_pc, environ>>

\* a call of get_async_client
ClientGetAsync ==
  /\ UNCHANGED outside_client
  /\ client_pc = "ready"
  /\ client_calls < MaxClientCalls
  /\ client_calls' = client_calls + 1
  /\ ClientGot("get_async_client", get_async_client(adapter, environ, constructed))
  /\ UNCHANGED <<client_pc, environ>>

\* invoke / ainvoke / invoke_stream / ainvoke_stream: the request goes out on
\* the client the getter returns
ClientRequest(m) ==
  /\ UNCHANGED outside_client
  /\ client_pc = "ready"
  /\ client_calls < MaxClientCalls
  /\ client_calls' = client_calls + 1
  /\ ClientGot(m, ClientGetter(m, adapter, environ, constructed))
  /\ UNCHANGED <<client_pc, environ>>

ClientNext ==
  \/ ClientConfigure
  \/ ClientGetParams
  \/ ClientGet
  \/ ClientGetAsync
  \/ \E m \in RequestMethods : ClientRequest(m)

(* ----------------------------- test runner ---------------------------- *)
\* the .py files a selected directory may hold
Scripts == {"a.py", "b.py"}

\* os.listdir filtered to .py files: any of them, in any order
Listings == {<<>>, <<"a.py">>, <<"b.py">>, <<"a.py", "b.py">>, <<"b.py", "a.py">>}

\* how `python script` can end: Popen raises OSError, or the process exits
\* with a return code
SpawnFailed == [raised |-> TRUE, returncode |-> 0]
Exited(returncode) == [raised |-> FALSE, returncode |-> returncode]
RunOutcomes == {SpawnFailed, Exited(0), Exited(1)}

\* run_python_script: True iff the process exited with return code 0
run_python_script(outcome) == ~outcome.raised /\ outcome.returncode = 0

\* one iteration of `for py_file in ...: if not run_python_script(...):
\* log.append(py_file)`
RunInto(log, py_file, outcome) ==
  IF run_python_script(outcome) THEN log ELSE Append(log, py_file)

\* the test of `while error_log:` and what follows it either way, up to the
\* prompt or to the end of the program
WhileErrorLog(log) ==
  IF log # <<>>
  THEN /\ printed' = Append(printed, "--- Error Log ---")
       /\ run_pc' = "prompt"
  ELSE /\ printed' = Append(printed, "All scripts executed successfully!")
       /\ run_pc' = "success"

RunnerInit ==
  /\ run_pc = "start"
  /\ python_files = <<>>
  /\ error_log = <<>>
  /\ new_error_log = <<>>
  /\ queue = <<>>
  /\ runs = <<>>
  /\ last_run = [script \in Scripts |-> "never"]
  /\ printed = <<>>
  /\ rounds = 0

\* select_directory returns None: the user made no selection
RunnerNoDirectory ==
  /\ UNCHANGED outside_runner
  /\ run_pc = "start"
  /\ run_pc' = "no_directory"
  /\ printed' = Append(printed, "No directory selected. Exiting.")
  /\ UNCHANGED <<python_files, error_log, new_error_log, queue, runs, last_run, rounds>>

\* a directory is selected and its .py files are listed
RunnerList(files) ==
  /\ UNCHANGED outside_runner
  /\ run_pc = "start"
  /\ python_files' = files
  /\ IF files = <<>>
     THEN /\ run_pc' = "no_files"
          /\ printed' = Append(printed, "No .py files found in the selected directory.")
          /\ UNCHANGED queue
     ELSE /\ run_pc' = "first_pass"
          /\ queue' = files
          /\ UNCHANGED printed
  /\ error_log' = <<>>
  /\ UNCHANGED <<new_error_log, runs, last_run, rounds>>

\* the first for loop runs its next script
RunnerRun(outcome) ==
  /\ UNCHANGED outside_runner
  /\ run_pc = "first_pass"
  /\ queue # <<>>
  /\ error_log' = RunInto(error_log, Head(queue), outcome)
  /\ runs' = Append(runs, [script |-> Head(queue), outcome |-> outcome])
  /\ last_run' = [last_run EXCEPT ![Head(queue)] =
                    IF run_python_script(outcome) THEN "passed" ELSE "failed"]
  /\ queue' = Tail(queue)
  /\ UNCHANGED <<run_pc, python_files, new_error_log, printed, rounds>>

\* the first for loop is exhausted
RunnerPassEnds ==
  /\ UNCHANGED outside_runner
  /\ run_pc = "first_pass"
  /\ queue = <<>>
  /\ WhileErrorLog(error_log)
  /\ UNCHANGED <<python_files, error_log, new_error_log, queue, runs, last_run, rounds>>

\* the user answers the rerun prompt: no answer at all, no, or yes
RunnerAnswer(answers) ==
  /\ UNCHANGED outside_runner
  /\ run_pc = "prompt"
  /\ IF IsNone(answers) \/ ~Val(answers)
     THEN /\ printed' = Append(printed,
                               "Exiting. Some scripts were not successfully executed:")
          /\ run_pc' = "exited"
          /\ UNCHANGED <<new_error_log, queue, runs, rounds>>
     ELSE /\ rounds < MaxRounds
          /\ rounds' = rounds + 1
          /\ printed' = Append(printed, "Re-running failed scripts...")
          /\ new_error_log' = <<>>
          /\ queue' = error_log
          /\ runs' = <<>>
          /\ run_pc' = "rerun"
  /\ UNCHANGED <<python_files, error_log, last_run>>

\* the rerun for loop runs its next script
RunnerRerun(outcome) ==
  /\ UNCHANGED outside_runner
  /\ run_pc = "rerun"
  /\ queue # <<>>
  /\ new_error_log' = RunInto(new_error_log, Head(queue), outcome)
  /\ runs' = Append(runs, [script |-> Head(queue), outcome |-> outcome])
  /\ last_run' = [last_run EXCEPT ![Head(queue)] =
                    IF run_python_script(outcome) THEN "passed" ELSE "failed"]
  /\ queue' = Tail(queue)
  /\ UNCHANGED <<run_pc, python_files, error_log, printed, rounds>>

RunnerRoundEnds_keeps_log ==
  /\ UNCHANGED outside_runner
  /\ run_pc = "rerun"
  /\ queue = <<>>
  /\ error_log' = error_log
  /\ WhileErrorLog(error_log')
  /\ UNCHANGED <<python_files, new_error_log, queue, runs, last_run, rounds>>

\* the rerun for loop is exhausted: `error_log = new_error_log`, then the
\* while test again
RunnerRoundEnds ==
  /\ UNCHANGED outside_runner
  /\ run_pc = "rerun"
  /\ queue = <<>>
  /\ error_log' = new_error_log
  /\ WhileErrorLog(error_log')
  /\ UNCHANGED <<python_files, new_error_log, queue, runs, last_run, rounds>>

RunnerNext ==
  \/ RunnerNoDirectory
  \/ \E files \in Listings : RunnerList(files)
  \/ \E outcome \in RunOutcomes : RunnerRun(outcome)
  \/ RunnerPassEnds
  \/ \E answers \in {None, Some(FALSE), Some(TRUE)} : RunnerAnswer(answers)
  \/ \E outcome \in RunOutcomes : RunnerRerun(outcome)
  \/ RunnerRoundEnds

(* --------------------------- specifications --------------------------- *)
Init ==
  /\ GroqInit
  /\ PdfInit
  /\ ConcInit
  /\ MongoInit
  /\ ClientInit
  /\ RunnerInit

Next ==
  \/ \E m \in Methods : Call(m)
  \/ InvokeRaises
  \/ InvokeReturns
  \/ StreamChunk
  \/ StreamRaises
  \/ StreamEnds
  \/ DispatchTools

Spec == Init /\ [][Next]_vars

SpecPdf == Init /\ [][PdfNext]_vars

SpecConc == Init /\ [][ConcNext]_vars

SpecMongo == Init /\ [][MongoNext]_vars

SpecClient == Init /\ [][ClientNext]_vars

SpecRunner == Init /\ [][RunnerNext]_vars

\* streams in which the vendor reports usage before any completion token is
\* counted in it: a usage block with completion_tokens 0 between the chunks
EarlyUsage == Usage(5, 0, None, Some(1), None, None)
EarlyUsageChunks ==
  { Chunk(1, Some("Hello"), None, None),
    Chunk(1, Some(" world"), None, None),
    Chunk(0, None, None, Some(EarlyUsage)) } \cup
  { Chunk(0, None, None, Some(u)) : u \in UsageBlocks }

EarlyUsageNext ==
  \/ \E m \in Streaming : Call(m)
  \/ \E ch \in EarlyUsageChunks : ConsumeChunk(ch)
  \/ StreamRaises
  \/ StreamEnds

SpecEarlyUsage == Init /\ [][EarlyUsageNext]_vars

(* ------------------------------ claims -------------------------------- *)
Last(seq) == seq[Len(seq)]

AssistantAt == {i \in 1..Len(messages) : messages[i].role = "assistant"}

RECURSIVE SumChunkToolCalls(_)
SumChunkToolCalls(cs) ==
  IF cs = <<>> THEN 0 ELSE ChunkToolCalls(Head(cs)) + SumChunkToolCalls(Tail(cs))

\* tool calls carried by the last vendor completion the call processed
CarriedToolCalls ==
  IF method \in Streaming THEN SumChunkToolCalls(chunks)
  ELSE CompletionToolCalls(Val(completion))

\* a model round has just appended its assistant Message
RoundFinished == pc \in {"done", "tools"}

\* C1 as stated: whenever a call has returned (a stream is exhausted), the last
\* vendor completion it processed carried zero tool calls.
C1_ReturnsOnlyWithoutToolCalls ==
  pc = "done" => CarriedToolCalls = 0

\* C1 amended: a call returns only after a completion whose tool calls, if any,
\* could not be attached to the assistant Message (model_dump failed in the
\* non-streaming path); an assistant Message that does carry tool calls is
\* followed by its tool messages and by a further vendor request.
C1_ReturnsOnlyWithoutAttachedToolCalls ==
  /\ pc = "done" =>
       \/ CarriedToolCalls = 0
       \/ method \notin Streaming /\ ~Val(completion).dump_ok
  /\ \A i \in AssistantAt :
       ~IsNone(messages[i].tool_calls) =>
         \/ i = Len(messages) /\ pc = "tools"
         \/ /\ i < Len(messages)
            /\ messages[i + 1].role = "tool"
            /\ Len(at_request) > i

C1_Witness ==
  /\ pc = "done"
  /\ requests = 2
  /\ \E i \in AssistantAt : ~IsNone(messages[i].tool_calls)

\* C2 as stated: the concatenation of the yielded fragments equals the content
\* of the assistant Message the streamed round appends.
C2_ConcatenationIsContent ==
  (RoundFinished /\ method \in Streaming) =>
    Last(messages).content = Some(Concat(yielded))

\* C2 amended: the same, except that an empty concatenation leaves the
\* Message's content None.
C2_ConcatenationIsContentOrNone ==
  (RoundFinished /\ method \in Streaming) =>
    Last(messages).content =
      IF Concat(yielded) = "" THEN None ELSE Some(Concat(yielded))

C2_Witness ==
  /\ pc = "done"
  /\ method \in Streaming
  /\ Len(yielded) = 2
  /\ Last(messages).content = Some("Hello world")

RECURSIVE SumRecorded(_, _)
\* the sum of counter k over the metrics of the assistant Messages of msgs
SumRecorded(msgs, k) ==
  IF msgs = <<>> THEN 0
  ELSE (IF Head(msgs).role = "assistant" THEN Get(Head(msgs).metrics, k, 0) ELSE 0)
       + SumRecorded(Tail(msgs), k)

\* C3: a lifetime counter equals the sum of the values recorded for the calls
\* made so far, for every counter recorded in all of them.
C3_LifetimeIsSumOfCalls ==
  \A k \in CounterKeys :
    (\A i \in AssistantAt : k \in DOMAIN messages[i].metrics) =>
      Get(self_metrics, k, 0) = SumRecorded(messages, k)

C3_Witness ==
  /\ pc = "done"
  /\ method \in Streaming
  /\ Cardinality(AssistantAt) = 2
  /\ \E i \in AssistantAt : "time_to_first_token" \notin DOMAIN messages[i].metrics
  /\ Get(self_metrics, "total_tokens", 0) = 14
  /\ Get(self_metrics, "completion_time", 0) = 2

\* C4: a non-streaming round whose completion has a usage block records
\* total_tokens = input_tokens + output_tokens.
C4_TotalIsInputPlusOutput ==
  (RoundFinished /\ method \notin Streaming /\ ~IsNone(Val(completion).usage)) =>
    LET recorded == Last(messages).metrics
    IN /\ TokenKeys \subseteq DOMAIN recorded
       /\ recorded["total_tokens"] = recorded["input_tokens"] + recorded["output_tokens"]

C4_Witness ==
  /\ pc = "done"
  /\ method = "aresponse"
  /\ ~IsNone(Val(completion).usage)
  /\ Last(messages).metrics["total_tokens"] = 7

\* C5: when the vendor call raises, the conversation list is as it was when
\* that vendor request began.
C5_RaisedLeavesConversation ==
  pc = "raised" => messages = at_request

C5_Witness ==
  /\ pc = "raised"
  /\ method \in Streaming
  /\ Len(yielded) > 0
  /\ requests = 2

\* C6 as stated: the error surfaced for a rejected request is a
\* ModelProviderError carrying the model name, the model id and status 404.
C6_TypedProviderError ==
  pc = "raised" =>
    /\ Val(error).type = "ModelProviderError"
    /\ {"model_name", "model_id"} \subseteq DOMAIN Val(error)
    /\ Val(error).status_code = Some(404)

\* the round consumed the chunks {content: "Hello"}, {content: " world"},
\* {usage: 5 / 2 / 7}
C9_Scenario ==
  chunks = << Chunk(1, Some("Hello"), None, None),
              Chunk(1, Some(" world"), None, None),
              Chunk(0, None, None, Some(Usage(5, 2, Some(1), Some(1), None, Some(2)))) >>

\* C9: the stream Hello, " world", usage 5/2/7 yields "Hello" then " world";
\* the appended assistant Message has content "Hello world" and total_tokens 7.
C9_HelloWorld ==
  (pc = "done" /\ method \in Streaming /\ C9_Scenario) =>
    /\ yielded = <<"Hello", " world">>
    /\ Last(messages).content = Some("Hello world")
    /\ Get(Last(messages).metrics, "total_tokens", 0) = 7

C9_Witness ==
  /\ pc = "done"
  /\ method = "response_stream"
  /\ C9_Scenario

\* the vendor reported counter k in the round that has just finished
Reported(k) ==
  IF method \in Streaming
  THEN \E i \in 1..Len(chunks) :
         ~IsNone(chunks[i].usage) /\ ~IsNone(Val(chunks[i].usage)[UsageField(k)])
  ELSE k \in UsageReported(Val(completion).usage)

\* C10 as stated: a counter the vendor did not report is written neither into
\* the round's assistant Message metrics nor (first round) into the lifetime
\* mapping.
C10_UnreportedIsNoData ==
  RoundFinished =>
    \A k \in CounterKeys :
      ~Reported(k) =>
        /\ k \notin DOMAIN Last(messages).metrics
        /\ requests = 1 => k \notin DOMAIN self_metrics

\* C7 as stated: a fetch that keeps failing is retried three times, after
\* waits of 1, 2 and 4 seconds, before the error propagates.
C7_ThreeRetriesOneTwoFour ==
  (reader = "PDFUrlReader" /\ pdf_error = Some("httpx.RequestError")) => slept = <<1, 2, 4>>

\* C8: read, after two failed fetches and a third that succeeds, returns the
\* documents, raises nothing and has logged exactly two retry warnings.
C8_ThirdAttemptSucceeds ==
  (reader = "PDFUrlReader" /\ pdf_method = "read" /\ attempt = 2
     /\ pdf_pc \in {"returned", "raised"}
     /\ pdf_error \notin {Some("httpx.RequestError"), Some("httpx.HTTPStatusError")}) =>
    /\ pdf_pc = "returned"
    /\ pdf_error = None
    /\ ~IsNone(documents)
    /\ slept = <<1, 2>>
    /\ pdf_log = << [level |-> "warning", wait_time |-> 1],
                    [level |-> "warning", wait_time |-> 2] >>

C8_Witness ==
  /\ reader = "PDFUrlReader"
  /\ pdf_method = "read"
  /\ attempt = 2
  /\ pdf_pc = "returned"
  /\ Len(Val(documents)) = 2

\* the running-total statements call t has executed add c_reported[t][k] to
\* counter k
AddedBy(t, k) ==
  IF /\ c_pc[t] \in {"update", "done"}
     /\ k \in DOMAIN c_reported[t]
     /\ \A i \in 1..Len(c_todo[t]) : c_todo[t][i] # k
  THEN c_reported[t][k]
  ELSE 0

\* C11: two calls on one adapter can lose an update: a lifetime counter is the
\* sum of the values the calls have added less what writes of a stale read
\* have overwritten, and that loss is not always zero.
C11_LifetimeIsSumLessLostUpdates ==
  \A k \in CounterKeys :
    Get(self_metrics, k, 0) = AddedBy(1, k) + AddedBy(2, k) - Get(lost, k, 0)

C11_Witness ==
  /\ \A t \in Calls : c_pc[t] = "done"
  /\ c_method = [t \in Calls |-> IF t = 1 THEN "response" ELSE "response_stream"]
  /\ \A t \in Calls : Get(c_reported[t], "total_tokens", 0) = 7
  /\ Get(self_metrics, "total_tokens", 0) = 7
  /\ Get(lost, "total_tokens", 0) = 7

RECURSIVE DeltaContents(_)
\* the non-null delta contents of a chunk sequence, in order
DeltaContents(cs) ==
  IF cs = <<>> THEN <<>>
  ELSE (IF Head(cs).choices > 0 /\ ~IsNone(Head(cs).content)
        THEN <<Val(Head(cs).content)>> ELSE <<>>) \o DeltaContents(Tail(cs))

\* the token counters a chunk sequence determines: those of its last usage
\* block (0 without one), and for completion_tokens one more per later chunk
\* that has choices
StreamTokens(cs, k) ==
  LET with_usage == {i \in 1..Len(cs) : ~IsNone(cs[i].usage)}
      last == IF with_usage = {} THEN 0
              ELSE CHOOSE i \in with_usage : \A j \in with_usage : j <= i
      base == IF last = 0 THEN 0 ELSE Val(Val(cs[last].usage)[UsageField(k)])
      later == Cardinality({j \in (last + 1)..Len(cs) : cs[j].choices > 0})
  IN IF k = "completion_tokens" THEN base + later ELSE base

StreamTokenKeys == TokenKeys \cup {"prompt_tokens", "completion_tokens"}

\* C12: a streamed call that ran concurrently with another call has appended an
\* assistant Message whose content and token metrics are those of its own chunk
\* stream, and its Metrics instance holds the same counters.
C12_BuiltFromOwnStream ==
  \A t \in Calls :
    (c_pc[t] = "done" /\ c_method[t] \in Streaming) =>
      LET own == Concat(DeltaContents(c_chunks[t]))
          appended == Last(c_messages[t])
      IN /\ appended.content = IF own = "" THEN None ELSE Some(own)
         /\ \A k \in StreamTokenKeys :
              /\ Get(appended.metrics, k, 0) = StreamTokens(c_chunks[t], k)
              /\ c_metrics[t][k] = Some(StreamTokens(c_chunks[t], k))

C12_Witness ==
  /\ \A t \in Calls : c_pc[t] = "done" /\ c_method[t] = "response_stream"
  /\ Last(c_messages[1]).content = Some("Hello")
  /\ Get(Last(c_messages[2]).metrics, "total_tokens", 0) = 7
  /\ IsNone(Last(c_messages[2]).content)
  /\ Get(Last(c_messages[1]).metrics, "total_tokens", 1) = 0
\* C13: the contents the chunk loop has yielded are the non-null delta
\* contents of the chunks consumed so far, one per chunk and in their order.
C13_YieldsDeltaContentsInOrder ==
  method \in Streaming => yielded = DeltaContents(chunks)

C13_Witness ==
  /\ pc = "stream"
  /\ Len(chunks) = 3
  /\ IsNone(chunks[2].content)
  /\ yielded = <<" world", "Hello">>

\* C14: a round whose completion carried no tool calls has appended exactly one
\* message, an assistant one, at the end of the list it was given; the first
\* call on [system, user] leaves the roles system, user, assistant.
C14_AppendsOneAssistantMessage ==
  (RoundFinished /\ CarriedToolCalls = 0) =>
    /\ Len(messages) = Len(at_request) + 1
    /\ SubSeq(messages, 1, Len(at_request)) = at_request
    /\ Last(messages).role = "assistant"
    /\ requests = 1 =>
         [i \in 1..Len(messages) |-> messages[i].role] = <<"system", "user", "assistant">>

C14_Witness ==
  /\ pc = "done"
  /\ requests = 1
  /\ method = "response_stream"
  /\ chunks = <<>>
  /\ [i \in 1..Len(messages) |-> messages[i].role] = <<"system", "user", "assistant">>

\* C15: an assistant Message with tool calls is in the list before dispatch
\* starts; once a later vendor request has been issued, the tool messages of
\* its calls follow it directly, in call order, and that request saw them.
C15_ToolResultsFollowTheirCall ==
  /\ pc = "tools" => HasToolCalls(Last(messages))
  /\ \A i \in AssistantAt :
       HasToolCalls(messages[i]) =>
         LET calls == Val(messages[i].tool_calls)
         IN IF Len(at_request) < i
            THEN i = Len(messages) /\ pc = "tools"
            ELSE /\ Len(at_request) >= i + Len(calls)
                 /\ \A j \in 1..Len(calls) :
                      /\ at_request[i + j].role = "tool"
                      /\ at_request[i + j].tool_call_id = Some(calls[j].id)
                      /\ messages[i + j] = at_request[i + j]

C15_Witness ==
  /\ pc = "done"
  /\ method = "response_stream"
  /\ Len(messages) = 5
  /\ HasToolCalls(messages[3])
  /\ messages[4].role = "tool"
  /\ messages[5].role = "assistant"
\* C18: a chunk with zero choices yields nothing and leaves the accumulated
\* content and tool-call fragments, the chunk count and time_to_first_token as
\* they were; a usage block on it replaces the counters of the Metrics.
C18_ZeroChoiceChunkIsSkipped ==
  [][(pc = "stream" /\ Len(chunks') = Len(chunks) + 1 /\ Last(chunks').choices = 0) =>
       /\ yielded' = yielded
       /\ stream_data' = stream_data
       /\ metrics'.time_to_first_token = metrics.time_to_first_token
       /\ IF IsNone(Last(chunks').usage)
          THEN \A f \in DOMAIN metrics \ {"elapsed"} : metrics'[f] = metrics[f]
          ELSE \A k \in CounterKeys :
                 metrics'[k] = Val(Last(chunks').usage)[UsageField(k)]]_vars

C18_Witness ==
  /\ pc = "stream"
  /\ chunks = << Chunk(1, Some("Hello"), None, None), Chunk(0, None, None, None) >>
  /\ yielded = <<"Hello">>
  /\ stream_data.response_content = "Hello"
  /\ metrics.completion_tokens = Some(1)
  /\ metrics.time_to_first_token = Some(1)

\* the chunks consumed so far that have content
WithContent == {i \in 1..Len(chunks) : chunks[i].choices > 0 /\ ~IsNone(chunks[i].content)}

\* C19 as stated: time_to_first_token is the elapsed time at the first chunk
\* that has content (the timer reads i while chunk i is processed), and is not
\* set before such a chunk.
C19_FirstTokenAtFirstContent ==
  method \in Streaming =>
    metrics.time_to_first_token =
      IF WithContent = {} THEN None
      ELSE Some(CHOOSE i \in WithContent : \A j \in WithContent : i <= j)

\* C20: a vendor request is issued exactly when a model round begins (a call
\* is entered, or tool dispatch hands over to the follow-up round), and a
\* request that fails ends the call without another request.
C20_OneRequestPerRound ==
  [][/\ requests' \in {requests, requests + 1}
     /\ requests' = requests + 1 <=>
          (pc \in {"idle", "done", "raised", "tools"} /\ pc' \in {"invoke", "stream"})
     /\ (pc \in {"invoke", "stream"} /\ ~IsNone(error')) =>
          (pc' = "raised" /\ requests' = requests)]_vars

C20_Witness ==
  /\ pc = "done"
  /\ method = "response"
  /\ requests = 2
  /\ Len(messages) = 5
  /\ Cardinality({i \in AssistantAt : HasToolCalls(messages[i])}) = 1
\* C17 as stated: whichever URL reader and method ran, a transient network
\* error reaches the caller only after the fetch has been retried.
C17_EveryUrlReaderRetries ==
  pdf_error = Some("httpx.RequestError") => Len(slept) >= 1 /\ attempt >= 1
\* C16: for every session id, read(id) returns the session last upserted
\* under it (with the storage's timestamps) if it has not been deleted or
\* dropped since, and None otherwise.
C16_ReadReturnsLastUpsert ==
  \A i \in SessionIds :
    LET got == read(collection, i, None)
    IN IF IsNone(upserted[i]) THEN IsNone(got)
       ELSE /\ ~IsNone(got)
            /\ \A f \in SessionFields : Val(got)[f] = Val(upserted[i])[f]

C16_Witness ==
  /\ mongo_ops = 4
  /\ DOMAIN collection = {"s1"}
  /\ collection["s1"]["created_at"] = 1
  /\ collection["s1"]["updated_at"] = 4
  /\ upserted["s1"] = Some([session_id |-> "s1", user_id |-> "u2", session_data |-> "b"])
  /\ mongo_result = Some(from_dict(collection["s1"]))
  /\ Val(mongo_result)["session_data"] = "b"

\* a non-streaming round whose completion carried tool calls that
\* create_assistant_message could not process
DumpFailed ==
  /\ method \notin Streaming
  /\ ~IsNone(completion)
  /\ CompletionToolCalls(Val(completion)) > 0
  /\ ~Val(completion).dump_ok

\* C21: when processing a completion's tool calls fails, the failure is
\* logged as a warning, the assistant Message is appended without tool_calls,
\* the usage metrics are recorded on it and in the lifetime mapping, and the
\* call returns normally.
C21_ToolCallFailureDegrades ==
  DumpFailed =>
    LET c == Val(completion)
        a == Last(messages)
    IN /\ pc = "done"
       /\ IsNone(error)
       /\ logged # <<>> /\ Last(logged) = "Error processing tool calls"
       /\ messages = Append(at_request, a)
       /\ a.role = "assistant" /\ a.content = c.content /\ IsNone(a.tool_calls)
       /\ DOMAIN a.metrics = {"time"} \cup UsageReported(c.usage)
       /\ \A k \in UsageReported(c.usage) :
            /\ a.metrics[k] = Val(Val(c.usage)[UsageField(k)])
            /\ Get(self_metrics, k, 0) >= a.metrics[k]
       /\ Get(self_metrics, "response_times", <<>>) # <<>>

C21_Witness ==
  /\ DumpFailed
  /\ pc = "done"
  /\ ~IsNone(Val(completion).usage)
  /\ IsNone(Last(messages).tool_calls)
  /\ Last(messages).metrics["total_tokens"] = 7
  /\ logged = << "Error processing tool calls" >>

\* get_client_params has just returned or raised on an adapter with no api_key
\* field and no GROQ_API_KEY in the environment
MissingKeyReported ==
  /\ client_result.op = "get_client_params"
  /\ IsNone(adapter.api_key)
  /\ IsNone(environ)

KeyInClientParams ==
  ~IsNone(adapter.client_params) /\ "api_key" \in DOMAIN Val(adapter.client_params)

\* C22 as stated: with no api_key field and no GROQ_API_KEY, get_client_params
\* logs an error, raises nothing and returns parameters without an api_key
\* entry.
C22_MissingKeyIsOnlyLogged ==
  MissingKeyReported =>
    /\ IsNone(client_result.error)
    /\ client_log # <<>>
    /\ ~IsNone(client_result.params)
    /\ "api_key" \notin DOMAIN Val(client_result.params)

\* C22, amended: with no api_key field and no GROQ_API_KEY, get_client_params
\* logs an error, raises nothing and returns parameters whose only possible
\* api_key entry is the one of the caller's client_params dict.
C22_MissingKeyIsOnlyLoggedParamsMayCarryOne ==
  MissingKeyReported =>
    /\ IsNone(client_result.error)
    /\ client_log # <<>>
    /\ Last(client_log) =
         "GROQ_API_KEY not set. Please set the GROQ_API_KEY environment variable."
    /\ ~IsNone(client_result.params)
    /\ "api_key" \in DOMAIN Val(client_result.params) <=> KeyInClientParams
    /\ KeyInClientParams =>
         Val(client_result.params)["api_key"] = Val(adapter.client_params)["api_key"]

C22_Witness ==
  /\ MissingKeyReported
  /\ ~KeyInClientParams
  /\ Len(client_log) = 1
  /\ client_result.params = Some([timeout |-> 30])

\* the field the getter of the last call reads
GetterField(op) ==
  IF op \in {"get_client", "invoke", "invoke_stream"} THEN "client" ELSE "async_client"

C23_HttpErrorIsRetried ==
  (reader = "PDFUrlReader" /\ pdf_error = Some("httpx.HTTPStatusError")) =>
    \E i \in 1..(Len(outcomes) - 1) : IsHttpError(outcomes[i])

\* C23, amended: the PDF URL reader retries only a fetch that raises
\* httpx.RequestError; a fetch that ends in an HTTP error status is the last
\* of its call, and the error is logged and raised to the caller.
C23_OnlyRequestErrorIsRetried ==
  reader = "PDFUrlReader" =>
    /\ \A i \in 1..(Len(outcomes) - 1) : outcomes[i].raised
    /\ Len(slept) = Cardinality({i \in 1..Len(outcomes) : outcomes[i].raised /\ i < Attempts})
    /\ (outcomes # <<>> /\ IsHttpError(Last(outcomes))) =>
         /\ pdf_pc = "raised"
         /\ pdf_error = Some("httpx.HTTPStatusError")
         /\ Last(pdf_log) = [level |-> "error", status_code |-> Last(outcomes).status_code]

C23_Witness ==
  /\ reader = "PDFUrlReader"
  /\ pdf_pc = "raised"
  /\ Len(outcomes) = 2
  /\ outcomes[1].raised
  /\ Last(outcomes).status_code = 500
  /\ slept = <<1>>

\* a call of PDFUrlReader.read or async_read has returned or raised
PdfFinished == reader = "PDFUrlReader" /\ pdf_pc \in {"returned", "raised"}

\* C28: for the same url and the same fetch outcomes, async_read returns the
\* document list read returns and raises where read raises.
C28_AsyncReadEqualsRead ==
  (PdfFinished /\ pdf_method = "async_read") =>
    /\ documents = PDFUrlReader_read(url, chunk, outcomes).documents
    /\ pdf_error = PDFUrlReader_read(url, chunk, outcomes).error

\* C24: the first upsert of a session id stores _version 1, and every later
\* acknowledged upsert of that id stores a _version strictly greater than the
\* one stored before it.
C24_VersionIsACounter ==
  [][\A i \in SessionIds :
       (/\ mongo_ops' = mongo_ops + 1
        /\ ~IsNone(mongo_result')
        /\ Val(mongo_result').session_id = i) =>
         IF i \in DOMAIN collection
         THEN collection'[i]["_version"] > collection[i]["_version"]
         ELSE collection'[i]["_version"] = 1]_vars

Range(seq) == {seq[i] : i \in 1..Len(seq)}

\* the listed scripts whose most recent run did not exit with code 0
FailedLast == {script \in Range(python_files) : last_run[script] = "failed"}

\* C25: at every rerun prompt the error log holds exactly the scripts whose
\* most recent run failed; an accepted rerun round runs exactly those scripts;
\* 'All scripts executed successfully!' is printed only when every script's
\* most recent run exited 0; and while failures remain the program is at the
\* prompt (or on its way to it) until the user declines.
C25_ErrorLogIsFailedLast ==
  /\ run_pc = "prompt" =>
       /\ error_log # <<>>
       /\ Range(error_log) = FailedLast
       /\ Len(error_log) = Cardinality(FailedLast)
  /\ run_pc = "rerun" =>
       /\ [i \in 1..Len(runs) |-> runs[i].script] \o queue = error_log
       /\ Range(new_error_log) = {script \in Range(error_log) \ Range(queue) :
                                    last_run[script] = "failed"}
  /\ "All scripts executed successfully!" \in Range(printed) <=> run_pc = "success"
  /\ run_pc = "success" =>
       \A script \in Range(python_files) : last_run[script] = "passed"
  /\ (FailedLast # {} /\ run_pc \notin {"first_pass", "rerun"}) =>
       run_pc \in {"prompt", "exited"}
  /\ run_pc = "exited" =>
       Last(printed) = "Exiting. Some scripts were not successfully executed:"

C25_Witness ==
  /\ run_pc = "prompt"
  /\ rounds = 1
  /\ python_files = <<"a.py", "b.py">>
  /\ [i \in 1..Len(runs) |-> runs[i].script] = <<"a.py", "b.py">>
  /\ error_log = <<"b.py">>
  /\ last_run = [script \in Scripts |-> IF script = "a.py" THEN "passed" ELSE "failed"]

\* C27: within one streamed call time_to_first_token is assigned at most
\* once: once it is set, no later chunk of the stream changes it, wherever
\* the usage blocks arrive.
C27_FirstTokenAssignedOnce ==
  [][(pc = "stream" /\ pc' = "stream" /\ ~IsNone(metrics.time_to_first_token)) =>
       metrics'.time_to_first_token = metrics.time_to_first_token]_vars

\* C29: a round whose vendor call raises, before a completion or at any chunk
\* of the stream, leaves the lifetime metrics mapping as it was when the round
\* began: no step that begins a round, consumes a chunk or raises changes it.
C29_RaisedRoundLeavesLifetime ==
  [][pc' \in {"invoke", "stream", "raised"} => self_metrics' = self_metrics]_vars

C29_Witness ==
  /\ pc = "raised"
  /\ method \in Streaming
  /\ requests = 2
  /\ \E i \in 1..Len(chunks) : ~IsNone(chunks[i].usage)
  /\ ~IsNone(metrics.time_to_first_token)
  /\ Get(self_metrics, "response_times", <<>>) = <<1>>
  /\ "total_tokens" \notin DOMAIN self_metrics

\* the cooperative entry points
Cooperative == {"aresponse", "aresponse_stream"}

\* a step of a cooperative entry point is the step the blocking one takes
CooperativeStepIsBlockingStep ==
  method \in Cooperative =>
     /\ (pc = "invoke" /\ pc' \in {"done", "tools"}) =>
          LET r == response_round(Val(completion'), messages, metrics, self_metrics,
                                  model_response)
          IN /\ messages' = r.messages
             /\ model_response' = r.model_response
             /\ self_metrics' = r.self_metrics
             /\ (pc' = "tools") = r.tools
     /\ (pc = "stream" /\ pc' = "stream") =>
          LET r == chunk_loop_body(Last(chunks'),
                                   [metrics EXCEPT !.elapsed = Len(chunks) + 1],
                                   stream_data)
          IN /\ yielded' = IF IsNone(r.yield) THEN yielded
                           ELSE Append(yielded, Val(r.yield))
             /\ stream_data' = r.stream_data
             /\ metrics' = r.metrics
             /\ messages' = messages /\ self_metrics' = self_metrics
     /\ (pc = "stream" /\ pc' \in {"done", "tools"}) =>
          LET r == update_stream_metrics(stream_assistant_message(stream_data),
                                         metrics, self_metrics)
          IN /\ messages' = Append(messages, r.assistant_message)
             /\ self_metrics' = r.self_metrics
             /\ yielded' = yielded
             /\ (pc' = "tools") = HasToolCalls(r.assistant_message)

\* C26: the cooperative call style is equivalent to the blocking one: every
\* step of aresponse / aresponse_stream on a vendor output leaves the
\* conversation list, the ModelResponse, the yielded fragments, the call's
\* metrics and the lifetime mapping as the corresponding step of response /
\* response_stream leaves them from the same state on the same output; the
\* two start from the same state, so they stay equal.
C26_CooperativeStepsAreBlockingSteps == [][CooperativeStepIsBlockingStep]_vars

C26_Witness ==
  /\ method = "aresponse_stream"
  /\ pc = "done"
  /\ yielded = <<"Hello", " world">>
  /\ Last(messages).content = Some("Hello world")
  /\ Get(self_metrics, "total_tokens", 0) = 7
  /\ Len(messages) = Len(at_request) + 1

====
